---- MODULE Spec2Model ----
(***************************************************************************)
(* A model of the GRIB edition-1 reader of gogrib2: the numeric            *)
(* primitives, the six section decoders, the message assembler Read1 and   *)
(* the multi-message stream reader Read.                                   *)
(*                                                                         *)
(* A Go byte slice is modelled as a sequence of 0..255; data[i] of the     *)
(* source is B(data, i).  A nil error is the empty sequence; a non-nil     *)
(* error is the chain of its messages, outermost wrapper first.            *)
(***************************************************************************)
EXTENDS Integers, Sequences, FiniteSets, TLC

VARIABLES
    entry,          \* the function the caller invoked: "Read", "Read1" or "parseInt"
    arg,            \* the caller's input as it was built (chunks of a stream, a value to encode)
    data,           \* the byte buffer handed to the entry function
    rr,             \* ReadFile: the bufio.Reader wrapped around the stream
    pc,             \* position of the entry function
    out,            \* Read: the slice of messages accumulated so far
    unconsumed,     \* Read: start index, in data, of the slice `unconsumed`
    offset,         \* Read: the local `offset`
    zerosConsumed,  \* read1MaybeZeroPadded: the local `zerosConsumed`
    r1,             \* the frame of the running Read1 call
    got,            \* Read: what read1MaybeZeroPadded returned (record, bytesRead, err)
    attempts,       \* the offsets in data at which Read1 was called, in order
    ret             \* what the entry function returned to its caller

vars == <<entry, arg, data, rr, pc, out, unconsumed, offset, zerosConsumed, r1, got, attempts, ret>>

----------------------------------------------------------------------------
(* Bytes and slices *)

B(d, i) == d[i + 1]

\* d[lo:hi] of Go, for 0 <= lo <= hi <= len(d)
Slice(d, lo, hi) == SubSeq(d, lo + 1, hi)

\* d[lo:] of Go
SliceFrom(d, lo) == SubSeq(d, lo + 1, Len(d))

GRIB == <<71, 82, 73, 66>>
SEVENS == <<55, 55, 55, 55>>

NoErr == <<>>

NilBytes == [nil |-> TRUE, b |-> <<>>]
Bytes(s) == [nil |-> FALSE, b |-> s]

----------------------------------------------------------------------------
(* Numeric primitives *)

parse4ByteUint(byte0, byte1, byte2, byte3) ==
    ((byte0 * 256 + byte1) * 256 + byte2) * 256 + byte3

parse3ByteUint(byte0, byte1, byte2) == parse4ByteUint(0, byte0, byte1, byte2)

parse2ByteUint(byte0, byte1) == parse3ByteUint(0, byte0, byte1)

\* the two's-complement reading of the same two bytes
parse2ByteInt_twos(byte0, byte1) ==
    LET unsigned == parse2ByteUint(byte0, byte1)
    IN  IF unsigned >= 32768 THEN unsigned - 65536 ELSE unsigned

parse2ByteInt(byte0, byte1) ==
    LET unsigned == parse2ByteUint(byte0, byte1)
        absValue == unsigned % 32768
        negative == (unsigned \div 32768) % 2 # 0
    IN  IF negative THEN (-1) * absValue ELSE absValue

parse3ByteInt(byte0, byte1, byte2) ==
    LET unsigned == parse3ByteUint(byte0, byte1, byte2)
        absValue == unsigned % 8388608
        negative == (unsigned \div 8388608) % 2 # 0
    IN  IF negative THEN (-1) * absValue ELSE absValue

\* A 32-bit unsigned value with its top bit set does not fit TLC's signed 32-bit
\* integers: it is kept as its two 16-bit halves, hi * 2^16 + lo.
Uint32(byte0, byte1, byte2, byte3) == [hi |-> byte0 * 256 + byte1, lo |-> byte2 * 256 + byte3]

\* real(parse4ByteUint(byte0, byte1, byte2, byte3))
parse4ByteReal(byte0, byte1, byte2, byte3) == Uint32(byte0, byte1, byte2, byte3)

\* binary.LittleEndian.Uint32
LittleEndian_Uint32(b) == Uint32(B(b, 3), B(b, 2), B(b, 1), B(b, 0))

\* math.Float32frombits: the float32 is identified with its bit pattern
Float32frombits(u) == u

----------------------------------------------------------------------------
(* Section decoders.  Each returns [n, err, panic, sec]: bytes consumed,   *)
(* the error, whether the call panicked on an out-of-range index or slice, *)
(* and the receiver's fields as the call left them.                        *)

Fail(msg, sec) == [n |-> 0, err |-> <<msg>>, panic |-> FALSE, sec |-> sec]
Okay(n, sec) == [n |-> n, err |-> NoErr, panic |-> FALSE, sec |-> sec]
Panics(sec) == [n |-> 0, err |-> NoErr, panic |-> TRUE, sec |-> sec]

indicatorSection_zero == [messageLength |-> 0]

\* the Indicator decoder without the comparison of the declared length with len(data)
indicatorSection_parseBytes_unchecked(d) ==
    IF Len(d) < 8 THEN Fail("invalid GRIB file < 8 bytes long", indicatorSection_zero)
    ELSE IF Slice(d, 0, 4) # GRIB THEN Fail("first four bytes", indicatorSection_zero)
    ELSE IF B(d, 7) # 1 THEN Fail("got GRIB edition", indicatorSection_zero)
    ELSE Okay(8, [messageLength |-> parse3ByteUint(B(d, 4), B(d, 5), B(d, 6))])

indicatorSection_parseBytes(d) ==
    IF Len(d) < 8 THEN Fail("invalid GRIB file < 8 bytes long", indicatorSection_zero)
    ELSE IF Slice(d, 0, 4) # GRIB THEN Fail("first four bytes", indicatorSection_zero)
    ELSE IF B(d, 7) # 1 THEN Fail("got GRIB edition", indicatorSection_zero)
    ELSE LET is == [messageLength |-> parse3ByteUint(B(d, 4), B(d, 5), B(d, 6))]
         IN  IF is.messageLength > Len(d)
             THEN Fail("message length exceeds bytes supplied", is)
             ELSE Okay(8, is)

section2Included == 128
section3Included == 64

\* x & (1 << k) != 0, for mask = 1 << k
BitSet(x, mask) == (x \div mask) % 2 # 0

ProductDefinition_zero == [section1Length |-> 0, section1Flags |-> 0]

gridDescriptionSectionIncluded(s) == BitSet(s.section1Flags, section2Included)

\* the bitmap gate reading the Grid Description's bit
BitmapIncluded_sameBit(s) == BitSet(s.section1Flags, section2Included)

BitmapIncluded(s) == BitSet(s.section1Flags, section3Included)

\* the Product Definition decoder without the comparison of the declared length with len(data)
ProductDefinition_parseBytes_unchecked(d) ==
    IF Len(d) < 28 THEN Fail("GRIB file section must be at least 28 bytes long", ProductDefinition_zero)
    ELSE LET s == [ section1Length |-> parse3ByteUint(B(d, 0), B(d, 1), B(d, 2)),
                    table2Version |-> B(d, 3),
                    center |-> B(d, 4),
                    generatingProcessIdentifier |-> B(d, 5),
                    gridDefinition |-> B(d, 6),
                    section1Flags |-> B(d, 7),
                    indicatorOfParameter |-> B(d, 8),
                    indicatorOfTypeOfLevel |-> B(d, 9),
                    heightPressureEtcOfLevels |-> parse2ByteUint(B(d, 10), B(d, 11)),
                    yearOfCentury |-> B(d, 12),
                    month |-> B(d, 13),
                    day |-> B(d, 14),
                    hour |-> B(d, 15),
                    minute |-> B(d, 16),
                    unitOfTimeRange |-> B(d, 17),
                    p1 |-> B(d, 18),
                    p2 |-> B(d, 19),
                    timeRangeIndicator |-> B(d, 20),
                    numberIncludedInAverage |-> parse2ByteUint(B(d, 21), B(d, 22)),
                    numberMissingFromAveragesOrAccumulations |-> B(d, 23),
                    centuryOfReferenceTimeOfData |-> B(d, 24),
                    subCentre |-> B(d, 25),
                    decimalScaleFactor |-> parse2ByteInt(B(d, 21), B(d, 22)) ]
         IN  Okay(s.section1Length, s)

ProductDefinition_parseBytes(d) ==
    IF Len(d) < 28 THEN Fail("GRIB file section must be at least 28 bytes long", ProductDefinition_zero)
    ELSE LET s == [ section1Length |-> parse3ByteUint(B(d, 0), B(d, 1), B(d, 2)),
                    table2Version |-> B(d, 3),
                    center |-> B(d, 4),
                    generatingProcessIdentifier |-> B(d, 5),
                    gridDefinition |-> B(d, 6),
                    section1Flags |-> B(d, 7),
                    indicatorOfParameter |-> B(d, 8),
                    indicatorOfTypeOfLevel |-> B(d, 9),
                    heightPressureEtcOfLevels |-> parse2ByteUint(B(d, 10), B(d, 11)),
                    yearOfCentury |-> B(d, 12),
                    month |-> B(d, 13),
                    day |-> B(d, 14),
                    hour |-> B(d, 15),
                    minute |-> B(d, 16),
                    unitOfTimeRange |-> B(d, 17),
                    p1 |-> B(d, 18),
                    p2 |-> B(d, 19),
                    timeRangeIndicator |-> B(d, 20),
                    numberIncludedInAverage |-> parse2ByteUint(B(d, 21), B(d, 22)),
                    numberMissingFromAveragesOrAccumulations |-> B(d, 23),
                    centuryOfReferenceTimeOfData |-> B(d, 24),
                    subCentre |-> B(d, 25),
                    decimalScaleFactor |-> parse2ByteInt(B(d, 21), B(d, 22)) ]
         IN  IF s.section1Length > Len(d)
             THEN Fail("section 1 claims its length is greater than data size", s)
             ELSE Okay(s.section1Length, s)

DataRepresentationTypeLL == 0

pointsScanInMinusIDirection == 128
pointsScanInPlusJDirection_bit == 64
adjPointsJDirectionConsecutive == 32

pointsScanInPlusIDirection(m) == ~BitSet(m, pointsScanInMinusIDirection)
pointsScanInPlusJDirection(m) == BitSet(m, pointsScanInPlusJDirection_bit)
adjacentPointsInIDirectionAreConsecutive(m) == ~BitSet(m, adjPointsJDirectionConsecutive)

\* LatLongGrid.parseBytes indexes data[0] .. data[21] without a length check
LatLongGrid_parseBytes(d) ==
    IF Len(d) < 22 THEN [panic |-> TRUE, grid |-> <<>>]
    ELSE LET scan == B(d, 21)
             di == parse2ByteUint(B(d, 17), B(d, 18))
             dj == parse2ByteUint(B(d, 19), B(d, 20))
         IN  [ panic |-> FALSE,
               grid |-> [ numPointsAlongParallel |-> parse2ByteUint(B(d, 0), B(d, 1)),
                          numPointsAlongMeridian |-> parse2ByteUint(B(d, 2), B(d, 3)),
                          firstLat |-> parse3ByteInt(B(d, 4), B(d, 5), B(d, 6)),
                          firstLng |-> parse3ByteInt(B(d, 7), B(d, 8), B(d, 9)),
                          resolutionAndComponentFlags |-> B(d, 10),
                          lastLat |-> parse3ByteInt(B(d, 11), B(d, 12), B(d, 13)),
                          lastLng |-> parse3ByteInt(B(d, 14), B(d, 15), B(d, 16)),
                          parallelIncrement |->
                              IF ~pointsScanInPlusIDirection(scan) THEN di * (-1) ELSE di,
                          meridianIncrement |->
                              IF ~pointsScanInPlusJDirection(scan) THEN dj * (-1) ELSE dj,
                          scanningMode |-> scan ] ]

GridDescription_zero == [section2Length |-> 0]

GridDescription_parseBytes(d) ==
    IF Len(d) < 6 THEN Fail("GRIB file section must be at least 6 bytes long", GridDescription_zero)
    ELSE LET s == [ section2Length |-> parse3ByteUint(B(d, 0), B(d, 1), B(d, 2)),
                    numberOfVerticalCoordinateValues |-> B(d, 3),
                    pvlLocation |-> B(d, 4),
                    dataRepresentationType |-> B(d, 5) ]
         IN  IF s.section2Length > Len(d)
             THEN Fail("section 2 claims its length is greater than data size", s)
             ELSE IF s.section2Length < 6
             THEN Panics(s)      \* data[6:s.section2Length] with 6 > high bound
             ELSE LET representationBytes == Slice(d, 6, s.section2Length)
                  IN  IF s.dataRepresentationType = DataRepresentationTypeLL
                      THEN LET g == LatLongGrid_parseBytes(representationBytes)
                           IN  IF g.panic THEN Panics(s)
                               ELSE Okay(s.section2Length,
                                         s @@ [parsedKind |-> "LatLongGrid",
                                               parsedValue |-> g.grid])
                      ELSE Okay(s.section2Length,
                                s @@ [parsedKind |-> "unparsedGridDescription",
                                      parsedValue |-> representationBytes])

\* GridDescription.LatLongGrid(): the grid, or nil (the empty tuple)
GridDescription_LatLongGrid(s) ==
    IF s.parsedKind = "LatLongGrid" THEN <<s.parsedValue>> ELSE <<>>

Bitmap_zero == [section3Length |-> 0, values |-> NilBytes]

\* the Bitmap decoder keeping data[6:], everything up to the end of its span, as the mask
Bitmap_parseBytes_toEnd(d) ==
    IF Len(d) < 6 THEN Fail("GRIB file section must be at least 6 bytes long", Bitmap_zero)
    ELSE LET s == [ section3Length |-> parse3ByteUint(B(d, 0), B(d, 1), B(d, 2)),
                    numberOfUnusedBitsAtEndOfSection3 |-> B(d, 3),
                    tableReference |-> parse2ByteUint(B(d, 4), B(d, 5)),
                    values |-> NilBytes ]
         IN  IF s.section3Length > Len(d)
             THEN Fail("section 3 claims its length is greater than data size", s)
             ELSE IF s.tableReference = 0
             THEN IF s.section3Length < 6
                  THEN Panics(s)      \* data[6:s.section3Length] with 6 > high bound
                  ELSE Okay(s.section3Length,
                            [s EXCEPT !.values = Bytes(SliceFrom(d, 6))])
             ELSE Okay(s.section3Length, s)

Bitmap_parseBytes(d) ==
    IF Len(d) < 6 THEN Fail("GRIB file section must be at least 6 bytes long", Bitmap_zero)
    ELSE LET s == [ section3Length |-> parse3ByteUint(B(d, 0), B(d, 1), B(d, 2)),
                    numberOfUnusedBitsAtEndOfSection3 |-> B(d, 3),
                    tableReference |-> parse2ByteUint(B(d, 4), B(d, 5)),
                    values |-> NilBytes ]
         IN  IF s.section3Length > Len(d)
             THEN Fail("section 3 claims its length is greater than data size", s)
             ELSE IF s.tableReference = 0
             THEN IF s.section3Length < 6
                  THEN Panics(s)      \* data[6:s.section3Length] with 6 > high bound
                  ELSE Okay(s.section3Length,
                            [s EXCEPT !.values = Bytes(Slice(d, 6, s.section3Length))])
             ELSE Okay(s.section3Length, s)

binaryDataFlagIntegerValues == 32

floatingPointValuesRepresented(f) == ~BitSet(f, binaryDataFlagIntegerValues)

binaryDataSection_zero == [section4Length |-> 0, variables |-> <<>>, unparsedVariables |-> NilBytes]

\* the Binary Data decoder taking floating-point samples of any declared width
binaryDataSection_parseBytes_anyBits(d) ==
    IF Len(d) < 11 THEN Fail("GRIB file section must be at least 11 bytes long", binaryDataSection_zero)
    ELSE LET s == [ section4Length |-> parse3ByteUint(B(d, 0), B(d, 1), B(d, 2)),
                    dataFlag |-> B(d, 3),
                    binaryScaleFactor |-> parse2ByteInt(B(d, 4), B(d, 5)),
                    referenceValue |-> parse4ByteReal(B(d, 6), B(d, 7), B(d, 8), B(d, 9)),
                    bitsPerValue |-> B(d, 10),
                    variables |-> <<>>,
                    unparsedVariables |-> NilBytes ]
         IN  IF s.section4Length > Len(d)
             THEN Fail("section 3 claims its length is greater than data size", s)
             ELSE IF floatingPointValuesRepresented(s.dataFlag)
             THEN IF FALSE
                  THEN Fail("bitsPerValue, wanted 32 for floating point values", s)
                  ELSE LET unparsedVariables == SliceFrom(d, 11)
                       IN  IF Len(unparsedVariables) % 4 # 0
                           THEN Fail("len(data) isn't divisible by 4", s)
                           ELSE Okay(s.section4Length,
                                     [s EXCEPT !.variables =
                                         [k \in 1..(Len(unparsedVariables) \div 4) |->
                                             Float32frombits(LittleEndian_Uint32(Slice(unparsedVariables, 0, 4)))]])
             ELSE Okay(s.section4Length, [s EXCEPT !.unparsedVariables = Bytes(SliceFrom(d, 11))])

binaryDataSection_parseBytes(d) ==
    IF Len(d) < 11 THEN Fail("GRIB file section must be at least 11 bytes long", binaryDataSection_zero)
    ELSE LET s == [ section4Length |-> parse3ByteUint(B(d, 0), B(d, 1), B(d, 2)),
                    dataFlag |-> B(d, 3),
                    binaryScaleFactor |-> parse2ByteInt(B(d, 4), B(d, 5)),
                    referenceValue |-> parse4ByteReal(B(d, 6), B(d, 7), B(d, 8), B(d, 9)),
                    bitsPerValue |-> B(d, 10),
                    variables |-> <<>>,
                    unparsedVariables |-> NilBytes ]
         IN  IF s.section4Length > Len(d)
             THEN Fail("section 3 claims its length is greater than data size", s)
             ELSE IF floatingPointValuesRepresented(s.dataFlag)
             THEN IF s.bitsPerValue # 32
                  THEN Fail("bitsPerValue, wanted 32 for floating point values", s)
                  ELSE LET unparsedVariables == SliceFrom(d, 11)
                       IN  IF Len(unparsedVariables) % 4 # 0
                           THEN Fail("len(data) isn't divisible by 4", s)
                           ELSE Okay(s.section4Length,
                                     [s EXCEPT !.variables =
                                         [k \in 1..(Len(unparsedVariables) \div 4) |->
                                             Float32frombits(LittleEndian_Uint32(Slice(unparsedVariables, 0, 4)))]])
             ELSE Okay(s.section4Length, [s EXCEPT !.unparsedVariables = Bytes(SliceFrom(d, 11))])

\* the End decoder checking only that four bytes are there
endSection_parseBytes_anyBytes(d) ==
    IF Len(d) < 4 THEN Fail("got end section length, expected data length of at least 4", <<>>)
    ELSE Okay(4, <<>>)

endSection_parseBytes(d) ==
    IF Len(d) < 4 THEN Fail("got end section length, expected data length of at least 4", <<>>)
    ELSE IF Slice(d, 0, 4) # SEVENS THEN Fail("got end sequence, want 7777", <<>>)
    ELSE Okay(4, <<>>)

----------------------------------------------------------------------------
(* Read1, the message assembler.  Its frame holds the locals of the call;  *)
(* frame.unconsumed is the start index, in frame.data, of the slice        *)
(* `unconsumed`.  A pointer that may be nil is a tuple of length 0 or 1.   *)
(* frame.invoked lists the section decoders called so far, in order.       *)

NoRet == [returned |-> FALSE, msg |-> <<>>, n |-> 0, err |-> NoErr]

Read1_enter(d) ==
    [ pc |-> "sec0", data |-> d, unconsumed |-> 0, offset |-> 0,
      sec0 |-> <<>>, sec1 |-> <<>>, sec2 |-> <<>>, sec3 |-> <<>>, sec4 |-> <<>>,
      invoked |-> <<>>, ret |-> NoRet ]

Idle == [Read1_enter(<<>>) EXCEPT !.pc = "idle"]

\* return nil, 0, fmt.Errorf("<wrap>: %w", err)
Read1_fail(f, wrap, err) ==
    [f EXCEPT !.pc = "return",
              !.ret = [returned |-> TRUE, msg |-> <<>>, n |-> 0, err |-> <<wrap>> \o err]]

Read1_panic(f) == [f EXCEPT !.pc = "panic"]

\* unconsumed = unconsumed[bytesRead:]; offset += bytesRead
Read1_advance(f, bytesRead) ==
    [f EXCEPT !.unconsumed = @ + bytesRead, !.offset = @ + bytesRead]

Read1_rest(f) == SliceFrom(f.data, f.unconsumed)

\* the Indicator step going on to the Product Definition whatever the Indicator decoder returned
Read1_sec0_ignoreError(f) ==
    LET r == indicatorSection_parseBytes(f.data)
        g == [f EXCEPT !.invoked = Append(@, "Indicator"), !.sec0 = <<r.sec>>]
    IN  [Read1_advance(g, r.n) EXCEPT !.pc = "sec1"]

Read1_sec0(f) ==
    LET r == indicatorSection_parseBytes(f.data)
        g == [f EXCEPT !.invoked = Append(@, "Indicator"), !.sec0 = <<r.sec>>]
    IN  IF r.err # NoErr THEN Read1_fail(g, "error parsing indicator section", r.err)
        ELSE [Read1_advance(g, r.n) EXCEPT !.pc = "sec1"]

Read1_sec1(f) ==
    LET r == ProductDefinition_parseBytes(Read1_rest(f))
        g == [f EXCEPT !.invoked = Append(@, "ProductDefinition"), !.sec1 = <<r.sec>>]
    IN  IF r.err # NoErr THEN Read1_fail(g, "error parsing indicator section", r.err)
        ELSE [Read1_advance(g, r.n) EXCEPT !.pc =
                 IF gridDescriptionSectionIncluded(r.sec) THEN "sec2"
                 ELSE IF BitmapIncluded(r.sec) THEN "sec3" ELSE "sec4"]

Read1_sec2(f) ==
    LET r == GridDescription_parseBytes(Read1_rest(f))
        g == [f EXCEPT !.invoked = Append(@, "GridDescription"), !.sec2 = <<r.sec>>]
    IN  IF r.panic THEN Read1_panic(g)
        ELSE IF r.err # NoErr THEN Read1_fail(g, "error parsing indicator section", r.err)
        ELSE [Read1_advance(g, r.n) EXCEPT !.pc =
                 IF BitmapIncluded(f.sec1[1]) THEN "sec3" ELSE "sec4"]

Read1_sec3(f) ==
    LET r == Bitmap_parseBytes(Read1_rest(f))
        g == [f EXCEPT !.invoked = Append(@, "Bitmap"), !.sec3 = <<r.sec>>]
    IN  IF r.panic THEN Read1_panic(g)
        ELSE IF r.err # NoErr THEN Read1_fail(g, "error parsing indicator section", r.err)
        ELSE [Read1_advance(g, r.n) EXCEPT !.pc = "sec4"]

Read1_sec4(f) ==
    LET r == binaryDataSection_parseBytes(Read1_rest(f))
        g == [f EXCEPT !.invoked = Append(@, "BinaryData"), !.sec4 = <<r.sec>>]
    IN  IF r.err # NoErr THEN Read1_fail(g, "error parsing binary data section", r.err)
        ELSE [Read1_advance(g, r.n) EXCEPT !.pc = "sec5"]

Read1_sec5(f) ==
    LET r == endSection_parseBytes(Read1_rest(f))
        g == [f EXCEPT !.invoked = Append(@, "End")]
    IN  IF r.err # NoErr THEN Read1_fail(g, "error parsing binary data section", r.err)
        ELSE [Read1_advance(g, r.n) EXCEPT !.pc = "verify"]

Read1_succeed(f, consumedCount) ==
    [f EXCEPT !.pc = "return",
              !.ret = [ returned |-> TRUE,
                        msg |-> << [ ind |-> f.sec0[1], product |-> f.sec1[1],
                                     grid |-> f.sec2, bitmap |-> f.sec3,
                                     binary |-> f.sec4[1] ] >>,
                        n |-> consumedCount,
                        err |-> NoErr ]]

\* the final comparison rejecting only a message that overran its declared length
Read1_verify_overrunOnly(f) ==
    LET consumedCount == Len(f.data) - Len(Read1_rest(f))
    IN  IF consumedCount > f.sec0[1].messageLength
        THEN Read1_fail(f, "consumed bytes differ from message length in header", NoErr)
        ELSE Read1_succeed(f, consumedCount)

Read1_verify(f) ==
    LET consumedCount == Len(f.data) - Len(Read1_rest(f))
    IN  IF consumedCount # f.sec0[1].messageLength
        THEN Read1_fail(f, "consumed bytes differ from message length in header", NoErr)
        ELSE Read1_succeed(f, consumedCount)

Read1_step(f) ==
    CASE f.pc = "sec0" -> Read1_sec0(f)
      [] f.pc = "sec1" -> Read1_sec1(f)
      [] f.pc = "sec2" -> Read1_sec2(f)
      [] f.pc = "sec3" -> Read1_sec3(f)
      [] f.pc = "sec4" -> Read1_sec4(f)
      [] f.pc = "sec5" -> Read1_sec5(f)
      [] f.pc = "verify" -> Read1_verify(f)

RECURSIVE Read1_run(_)
Read1_run(f) == IF f.pc \in {"return", "panic"} THEN f ELSE Read1_run(Read1_step(f))

\* the whole call Read1(d): the frame it ends in
Read1(d) == Read1_run(Read1_enter(d))

----------------------------------------------------------------------------
(* Inputs.  A buffer is built from message descriptions: which sections    *)
(* the message holds, the length each section declares, and where the     *)
(* message departs from a well-formed one.                                 *)

MaxZeros == 1        \* length of a run of zero padding
MaxMsgs == 3         \* messages in a stream
PackedPayload == 3   \* payload bytes of a packed-integer Binary Data section
FloatGroups == 1     \* 4-byte groups in the payload of a floating-point Binary Data section
IntSpan == 20        \* values around each edge of the sign-magnitude range

Fill(n, v) == [i \in 1..n |-> v]
Ramp(n, from) == [i \in 1..n |-> (from + i) % 256]

U3(n) == <<(n \div 65536) % 256, (n \div 256) % 256, n % 256>>

PDSBytes(decl, flags) ==
    U3(decl) \o <<3, 98, 145, 255, flags, 169, 1, 0, 0, 22, 10, 23, 0, 0,
                  1, 0, 0, 0, 1, 4, 0, 21, 0, 128, 2>>

\* a 2 x 2 latitude/longitude grid from (0, 0) to (1, 1) degrees
LLBody == <<0, 2, 0, 2, 0, 0, 0, 0, 0, 0, 128, 0, 3, 232, 0, 3, 232, 3, 232, 3, 232, 64>>

GDSBytes(decl, tag, bodyLen) ==
    U3(decl) \o <<0, 255, tag>> \o
    (IF bodyLen <= 22 THEN SubSeq(LLBody, 1, bodyLen) ELSE LLBody \o Ramp(bodyLen - 22, 100))

BMSBytes(decl, ref, bodyLen) ==
    U3(decl) \o <<0, ref \div 256, ref % 256>> \o Ramp(bodyLen, 200)

BDSBytes(decl, flag, bits, payloadLen) ==
    U3(decl) \o <<flag, 128, 5, 66, 118, 160, 0, bits>> \o Ramp(payloadLen, 0)

Base ==
    [ magic |-> TRUE, edition |-> 1, declDelta |-> 0, flags |-> 0, pdsDecl |-> 28, pdsBody |-> 28,
      gdsDecl |-> 28, gdsTag |-> 0, gdsBody |-> 22,
      bmsDecl |-> 8, bmsRef |-> 0, bmsBody |-> 2,
      bdsDeclDelta |-> 0, bdsFlag |-> 32, bits |-> 8, payload |-> PackedPayload,
      end |-> TRUE, keep |-> -1 ]

Float == [Base EXCEPT !.bdsFlag = 0, !.bits = 32, !.payload = 4 * FloatGroups]

MsgBytes(m) ==
    LET body == SubSeq(PDSBytes(m.pdsDecl, m.flags), 1, m.pdsBody)
                \o (IF BitSet(m.flags, 128) THEN GDSBytes(m.gdsDecl, m.gdsTag, m.gdsBody) ELSE <<>>)
                \o (IF BitSet(m.flags, 64) THEN BMSBytes(m.bmsDecl, m.bmsRef, m.bmsBody) ELSE <<>>)
                \o BDSBytes(11 + m.payload + m.bdsDeclDelta, m.bdsFlag, m.bits, m.payload)
                \o (IF m.end THEN SEVENS ELSE <<55, 55, 55, 56>>)
        all == (IF m.magic THEN GRIB ELSE <<71, 82, 73, 67>>)
               \o U3(8 + Len(body) + m.declDelta) \o <<m.edition>> \o body
    IN  IF m.keep < 0 THEN all ELSE SubSeq(all, 1, m.keep)

\* well-formed messages: every combination of optional sections, both sample kinds
WellFormed ==
    { [b EXCEPT !.flags = fl] : b \in {Base, Float}, fl \in {0, 64, 128, 192} }
    \cup { [Base EXCEPT !.flags = 128, !.gdsTag = 1, !.gdsDecl = 10, !.gdsBody = 4],
           [Base EXCEPT !.flags = 64, !.bmsRef = 7],
           [Base EXCEPT !.payload = 0] }
    \cup { [Base EXCEPT !.bits = bv] : bv \in {0, 32, 255} }

\* messages that depart from a well-formed one in one place
Malformed ==
    { [Base EXCEPT !.magic = FALSE],
      [Base EXCEPT !.edition = 2],
      [Base EXCEPT !.keep = 7],
      [Base EXCEPT !.keep = 30, !.declDelta = -(PackedPayload + 21)],
      [Base EXCEPT !.end = FALSE],
      [Base EXCEPT !.flags = 192, !.end = FALSE],
      [Float EXCEPT !.bits = 16],
      [Float EXCEPT !.payload = 4 * FloatGroups + 1],
      [Base EXCEPT !.flags = 128, !.gdsDecl = 3],
      [Base EXCEPT !.flags = 128, !.gdsDecl = 6],
      [Base EXCEPT !.flags = 192, !.gdsDecl = 200],
      [Base EXCEPT !.flags = 64, !.bmsDecl = 5],
      [Base EXCEPT !.flags = 64, !.bmsDecl = 200],
      [Base EXCEPT !.flags = 64, !.bmsRef = 7, !.bmsDecl = 7],
      [Base EXCEPT !.bdsDeclDelta = 1],
      [Base EXCEPT !.bdsDeclDelta = -1],
      [Base EXCEPT !.bdsDeclDelta = 200],
      \* a Product Definition of 27 bytes declaring 27, the message consistent otherwise
      [Base EXCEPT !.pdsDecl = 27, !.pdsBody = 27],
      \* a Binary Data section declaring 10 whose eleventh byte is the first '7' of the End section
      [Base EXCEPT !.payload = 0, !.bdsDeclDelta = -1, !.bits = 55, !.declDelta = -1],
      \* a Bitmap with a table reference declaring 5 bytes
      [Base EXCEPT !.flags = 64, !.bmsRef = 7, !.bmsDecl = 5] }
    \cup { [Base EXCEPT !.declDelta = dd] : dd \in {-4, -1, 1, 4, 65536} }
    \cup { [Base EXCEPT !.pdsDecl = pl] : pl \in {0, 27, 29, 200} }

\* what may follow a message in the buffer handed to Read1
Tails == { Fill(n, 0) : n \in 0..MaxZeros } \cup { <<1, 2, 3, 4>>, GRIB }

Read1Inputs == { [m |-> m, tail |-> t] : m \in WellFormed \cup Malformed, t \in Tails }

\* the messages of a stream: the well-formed shapes and a few malformed ones
StreamMsgs ==
    { Base, [Base EXCEPT !.flags = 192], Float,
      [Base EXCEPT !.end = FALSE],
      [Base EXCEPT !.declDelta = -1],
      [Base EXCEPT !.flags = 128, !.gdsDecl = 3] }

ZeroRuns == {0, MaxZeros}

Chunks == [zeros : ZeroRuns, m : StreamMsgs]

StreamInputs ==
    UNION { [ chunks : [1..n -> Chunks], trailing : ZeroRuns ] : n \in 0..MaxMsgs }

RECURSIVE ChunkBytes(_, _)
ChunkBytes(cs, k) ==
    IF k > Len(cs) THEN <<>>
    ELSE Fill(cs[k].zeros, 0) \o MsgBytes(cs[k].m) \o ChunkBytes(cs, k + 1)

StreamBytes(a) == ChunkBytes(a.chunks, 1) \o Fill(a.trailing, 0)

\* sign-magnitude encoding of v in w bytes, for |v| < 2^(8w-1)
SignMagnitude(v, w) ==
    LET mag == IF v < 0 THEN -v ELSE v
        top == IF v < 0 THEN 128 ELSE 0
    IN  IF w = 2 THEN <<top + (mag \div 256), mag % 256>>
        ELSE <<top + (mag \div 65536), (mag \div 256) % 256, mag % 256>>

MaxMagnitude(w) == IF w = 2 THEN 32767 ELSE 8388607

Magnitudes(w) ==
    (0..IntSpan) \cup ((MaxMagnitude(w) - IntSpan)..MaxMagnitude(w))
    \cup {127, 128, 255, 256, 257, 16383, 16384}

\* negZero: the value 0 written with the sign bit set
IntInputs ==
    { [w |-> w, v |-> sg * mg, negZero |-> FALSE] :
        w \in {2, 3}, sg \in {-1, 1}, mg \in Magnitudes(2) \cup Magnitudes(3) }
    \cup { [w |-> w, v |-> 0, negZero |-> TRUE] : w \in {2, 3} }

IntBytes(a) ==
    IF a.negZero THEN (IF a.w = 2 THEN <<128, 0>> ELSE <<128, 0, 0>>) ELSE SignMagnitude(a.v, a.w)

----------------------------------------------------------------------------
(* The state machine *)

NoReturn == [kind |-> "none"]
NoGot == [record |-> <<>>, bytesRead |-> 0, err |-> NoErr]

\* a bufio.Reader over the stream `data`: bytes [r, w) of the stream are buffered, the
\* underlying reader stands at w, err is the error the last fill ran into
NewReader == [r |-> 0, w |-> 0, err |-> NoErr]

InitCommon ==
    /\ rr = NewReader
    /\ out = <<>>
    /\ unconsumed = 0
    /\ offset = 0
    /\ zerosConsumed = 0
    /\ got = NoGot
    /\ ret = NoReturn

\* a caller hands a stream to Read
Init ==
    /\ entry = "Read"
    /\ arg \in StreamInputs
    /\ data = StreamBytes(arg)
    /\ pc = "Read"
    /\ r1 = Idle
    /\ attempts = <<>>
    /\ InitCommon

\* a caller hands one buffer to Read1
InitRead1 ==
    /\ entry = "Read1"
    /\ arg \in Read1Inputs
    /\ data = MsgBytes(arg.m) \o arg.tail
    /\ pc = "Read1"
    /\ r1 = Read1_enter(data)
    /\ attempts = <<0>>
    /\ InitCommon

\* a caller hands an encoded integer to parse2ByteInt or parse3ByteInt
InitInt ==
    /\ entry = "parseInt"
    /\ arg \in { a \in IntInputs : a.v <= MaxMagnitude(a.w) /\ -a.v <= MaxMagnitude(a.w) }
    /\ data = IntBytes(arg)
    /\ pc = "parseInt"
    /\ r1 = Idle
    /\ attempts = <<>>
    /\ InitCommon

RECURSIVE LeadingZeros(_)
LeadingZeros(d) == IF Len(d) = 0 \/ d[1] # 0 THEN 0 ELSE 1 + LeadingZeros(Tail(d))

\* Read, the loop test failing: return out, nil
ReadReturn ==
    /\ pc = "Read"
    /\ Len(SliceFrom(data, unconsumed)) = 0
    /\ ret' = [kind |-> "return", out |-> out, err |-> NoErr, errOffset |-> 0]
    /\ pc' = "done"
    /\ UNCHANGED <<entry, arg, data, rr, out, unconsumed, offset, zerosConsumed, r1, got, attempts>>

\* Read calls read1MaybeZeroPadded, which finds only zeros: return nil, zerosConsumed, nil
ZeroPaddedNil ==
    /\ pc = "Read"
    /\ Len(SliceFrom(data, unconsumed)) > 0
    /\ LET z == LeadingZeros(SliceFrom(data, unconsumed))
       IN  /\ z = Len(SliceFrom(data, unconsumed))
           /\ zerosConsumed' = z
           /\ got' = [record |-> <<>>, bytesRead |-> z, err |-> NoErr]
    /\ pc' = "Read_got"
    /\ UNCHANGED <<entry, arg, data, rr, out, unconsumed, offset, r1, attempts, ret>>

\* Read calls read1MaybeZeroPadded, which skips the zeros and calls Read1
ZeroPaddedCall ==
    /\ pc = "Read"
    /\ Len(SliceFrom(data, unconsumed)) > 0
    /\ LET z == LeadingZeros(SliceFrom(data, unconsumed))
       IN  /\ z < Len(SliceFrom(data, unconsumed))
           /\ zerosConsumed' = z
           /\ r1' = Read1_enter(SliceFrom(data, unconsumed + z))
           /\ attempts' = Append(attempts, unconsumed + z)
    /\ pc' = "Read1"
    /\ UNCHANGED <<entry, arg, data, rr, out, unconsumed, offset, got, ret>>

Read1Caller == <<entry, arg, data, rr, pc, out, unconsumed, offset, zerosConsumed, got, attempts, ret>>

\* Read1: sec0.parseBytes(data)
Indicator ==
    /\ pc = "Read1" /\ r1.pc = "sec0"
    /\ r1' = Read1_sec0(r1)
    /\ UNCHANGED Read1Caller

\* Read1: sec1.parseBytes(unconsumed)
Product ==
    /\ pc = "Read1" /\ r1.pc = "sec1"
    /\ r1' = Read1_sec1(r1)
    /\ UNCHANGED Read1Caller

\* Read1: sec2.parseBytes(unconsumed), entered only if sec1.gridDescriptionSectionIncluded()
Grid ==
    /\ pc = "Read1" /\ r1.pc = "sec2"
    /\ r1' = Read1_sec2(r1)
    /\ UNCHANGED Read1Caller

\* Read1: sec3.parseBytes(unconsumed), entered only if sec1.BitmapIncluded()
BitmapStep ==
    /\ pc = "Read1" /\ r1.pc = "sec3"
    /\ r1' = Read1_sec3(r1)
    /\ UNCHANGED Read1Caller

\* Read1: sec4.parseBytes(unconsumed)
BinaryData ==
    /\ pc = "Read1" /\ r1.pc = "sec4"
    /\ r1' = Read1_sec4(r1)
    /\ UNCHANGED Read1Caller

\* Read1: sec5.parseBytes(unconsumed)
End ==
    /\ pc = "Read1" /\ r1.pc = "sec5"
    /\ r1' = Read1_sec5(r1)
    /\ UNCHANGED Read1Caller

\* Read1: the comparison of consumedCount with the declared message length
Verify ==
    /\ pc = "Read1" /\ r1.pc = "verify"
    /\ r1' = Read1_verify(r1)
    /\ UNCHANGED Read1Caller

\* a section decoder indexed or sliced out of range: the goroutine panics
Read1Panic ==
    /\ pc = "Read1"
    /\ r1.pc = "panic"
    /\ ret' = [kind |-> "panic"]
    /\ pc' = "done"
    /\ UNCHANGED <<entry, arg, data, rr, out, unconsumed, offset, zerosConsumed, r1, got, attempts>>

\* Read1 returns to the caller that called it directly
Read1Direct ==
    /\ entry = "Read1"
    /\ pc = "Read1"
    /\ r1.pc = "return"
    /\ ret' = [kind |-> "return", msg |-> r1.ret.msg, n |-> r1.ret.n, err |-> r1.ret.err]
    /\ pc' = "done"
    /\ UNCHANGED <<entry, arg, data, rr, out, unconsumed, offset, zerosConsumed, r1, got, attempts>>

\* read1MaybeZeroPadded: return got, recordBytes + zerosConsumed, err
ZeroPaddedReturn ==
    /\ entry = "Read"
    /\ pc = "Read1"
    /\ r1.pc = "return"
    /\ got' = [record |-> r1.ret.msg, bytesRead |-> r1.ret.n + zerosConsumed, err |-> r1.ret.err]
    /\ pc' = "Read_got"
    /\ UNCHANGED <<entry, arg, data, rr, out, unconsumed, offset, zerosConsumed, r1, attempts, ret>>

\* the loop body stepping over a message that failed and reading on after it
ReadHandle_skipFailed ==
    /\ pc = "Read_got"
    /\ IF got.err # NoErr
       THEN /\ unconsumed' = unconsumed + zerosConsumed + 1
            /\ offset' = offset + zerosConsumed + 1
            /\ UNCHANGED out
       ELSE /\ out' = Append(out, got.record)
            /\ unconsumed' = unconsumed + got.bytesRead
            /\ offset' = offset + got.bytesRead
    /\ pc' = "Read"
    /\ UNCHANGED <<entry, arg, data, rr, zerosConsumed, r1, got, attempts, ret>>

\* the loop body appending the record without advancing over the bytes read
ReadHandle_noAdvance ==
    /\ pc = "Read_got"
    /\ IF got.err # NoErr
       THEN /\ ret' = [ kind |-> "return", out |-> <<>>,
                        err |-> <<"error reading GRIB record @ byte offset">> \o got.err,
                        errOffset |-> offset ]
            /\ pc' = "done"
            /\ UNCHANGED <<out, unconsumed, offset>>
       ELSE /\ out' = Append(out, got.record)
            /\ UNCHANGED <<unconsumed, offset>>
            /\ pc' = "Read"
            /\ ret' = ret
    /\ UNCHANGED <<entry, arg, data, rr, zerosConsumed, r1, got, attempts>>

\* Read, the body of the loop after the call
ReadHandle ==
    /\ pc = "Read_got"
    /\ IF got.err # NoErr
       THEN /\ ret' = [ kind |-> "return", out |-> <<>>,
                        err |-> <<"error reading GRIB record @ byte offset">> \o got.err,
                        errOffset |-> offset ]
            /\ pc' = "done"
            /\ UNCHANGED <<out, unconsumed, offset>>
       ELSE /\ out' = Append(out, got.record)
            /\ unconsumed' = unconsumed + got.bytesRead
            /\ offset' = offset + got.bytesRead
            /\ pc' = "Read"
            /\ ret' = ret
    /\ UNCHANGED <<entry, arg, data, rr, zerosConsumed, r1, got, attempts>>

\* parse2ByteInt or parse3ByteInt on the encoded bytes
ParseInt ==
    /\ pc = "parseInt"
    /\ ret' = [ kind |-> "return",
                value |-> IF arg.w = 2 THEN parse2ByteInt(data[1], data[2])
                          ELSE parse3ByteInt(data[1], data[2], data[3]) ]
    /\ pc' = "done"
    /\ UNCHANGED <<entry, arg, data, rr, out, unconsumed, offset, zerosConsumed, r1, got, attempts>>

Read1Steps == Indicator \/ Product \/ Grid \/ BitmapStep \/ BinaryData \/ End \/ Verify \/ Read1Panic

Next == ReadReturn \/ ZeroPaddedNil \/ ZeroPaddedCall \/ Read1Steps \/ ZeroPaddedReturn \/ ReadHandle

NextRead1 == Read1Steps \/ Read1Direct

NextInt == ParseInt

Spec == Init /\ [][Next]_vars

SpecRead1 == InitRead1 /\ [][NextRead1]_vars

\* the streams of fewer than MaxMsgs messages
ShortStreamInputs ==
    UNION { [ chunks : [1..n -> Chunks], trailing : ZeroRuns ] : n \in 0..MaxMsgs - 1 }

\* a caller hands a short stream to Read
InitShortStream ==
    /\ entry = "Read"
    /\ arg \in ShortStreamInputs
    /\ data = StreamBytes(arg)
    /\ pc = "Read"
    /\ r1 = Idle
    /\ attempts = <<>>
    /\ InitCommon

\* Read runs on its caller's goroutine with nothing to wait for: a step that can be taken is taken
SpecReadFair == InitShortStream /\ [][Next]_vars /\ WF_vars(Next)

SpecInt == InitInt /\ [][NextInt]_vars

----------------------------------------------------------------------------
(* Parse32, the hexadecimal floating-point decoder.  A float64 is modelled *)
(* by its exact value: a sign, an odd mantissa and a binary exponent, or   *)
(* mantissa 0 for a zero of either sign.  Every value Parse32 can produce  *)
(* is b * 2^exp with b < 2^24 and -280 <= exp <= 228, which a float64      *)
(* holds exactly.                                                          *)

RECURSIVE Float64(_, _, _)
Float64(neg, mant, exp) ==
    IF mant = 0 THEN [neg |-> neg, mant |-> 0, exp |-> 0]
    ELSE IF mant % 2 = 0 THEN Float64(neg, mant \div 2, exp + 1)
    ELSE [neg |-> neg, mant |-> mant, exp |-> exp]

\* math.Ldexp(float64(b), exp)
Ldexp(b, exp) == Float64(FALSE, b, exp)

\* out * -1
Float64Negate(x) == [x EXCEPT !.neg = ~@]

\* the == of Go on two float64: the two zeros compare equal
Float64Eq(x, y) == (x.mant = 0 /\ y.mant = 0) \/ x = y

\* Parse32 reading the exponent without the excess-64 bias
Parse32_noBias(bytes) ==
    LET a == B(bytes, 0) % 128
        exp == 4 * a - 24
        b == B(bytes, 1) * 65536 + B(bytes, 2) * 256 + B(bytes, 3)
        result == Ldexp(b, exp)
        isNegative == B(bytes, 0) >= 128
    IN  IF isNegative THEN Float64Negate(result) ELSE result

Parse32(bytes) ==
    LET a == B(bytes, 0) % 128
        exp == 4 * (a - 64) - 24
        b == B(bytes, 1) * 65536 + B(bytes, 2) * 256 + B(bytes, 3)
        result == Ldexp(b, exp)
        isNegative == B(bytes, 0) >= 128
    IN  IF isNegative THEN Float64Negate(result) ELSE result

ByteSpan == 1        \* byte values taken within this distance of 0, 128 and 255

EdgeBytes == (0..ByteSpan) \cup ((128 - ByteSpan)..(128 + ByteSpan)) \cup ((255 - ByteSpan)..255)

Parse32Inputs ==
    { <<b0, b1, b2, b3>> :
        b0 \in EdgeBytes \cup {63, 64, 65, 66, 192, 194},
        b1 \in EdgeBytes \cup {118},
        b2 \in {0, 160, 255},
        b3 \in {0, 1, 255} }

\* a caller hands four bytes to Parse32
InitParse32 ==
    /\ entry = "Parse32"
    /\ arg \in Parse32Inputs
    /\ data = arg
    /\ pc = "Parse32"
    /\ r1 = Idle
    /\ attempts = <<>>
    /\ InitCommon

Parse32Call ==
    /\ pc = "Parse32"
    /\ ret' = [kind |-> "return", value |-> Parse32(data)]
    /\ pc' = "done"
    /\ UNCHANGED <<entry, arg, data, rr, out, unconsumed, offset, zerosConsumed, r1, got, attempts>>

NextParse32 == Parse32Call

SpecParse32 == InitParse32 /\ [][NextParse32]_vars

----------------------------------------------------------------------------
(* LatLongGrid.Points.  Its arithmetic is on int32 and wraps; a product or *)
(* sum that may leave the 32-bit range is carried as an exact integer      *)
(* hi * 2^16 + lo with 0 <= lo < 2^16, and Int32 is the conversion that    *)
(* keeps the low 32 bits.                                                  *)

Wide(x) == [hi |-> x \div 65536, lo |-> x % 65536]

WideNeg(w) ==
    IF w.lo = 0 THEN [hi |-> 0 - w.hi, lo |-> 0] ELSE [hi |-> 0 - w.hi - 1, lo |-> 65536 - w.lo]

WideAdd(a, b) ==
    [hi |-> a.hi + b.hi + ((a.lo + b.lo) \div 65536), lo |-> (a.lo + b.lo) % 65536]

\* the exact product index * inc, for 0 <= index < 2^16 and |inc| < 2^16
WideMul(index, inc) ==
    LET m == IF inc < 0 THEN 0 - inc ELSE inc
        t == index * (m \div 256)
        u == index * (m % 256)
        mid == (t % 256) * 256 + u
        p == [hi |-> (t \div 256) + (mid \div 65536), lo |-> mid % 65536]
    IN  IF inc < 0 THEN WideNeg(p) ELSE p

\* the int32 holding the low 32 bits of w
Int32(w) == (((w.hi + 32768) % 65536) - 32768) * 65536 + w.lo

\* x.milliDegrees += int32(index) * increment.milliDegrees
QuantizedAngle_plus(x, index, increment) ==
    Int32(WideAdd(Wide(x), Wide(Int32(WideMul(index, increment)))))

LatLongGrid_Points(s) ==
    LET ni == s.numPointsAlongParallel
        nj == s.numPointsAlongMeridian
        lat(j) == QuantizedAngle_plus(s.firstLat, j, s.meridianIncrement)
        lng(i) == QuantizedAngle_plus(s.firstLng, i, s.parallelIncrement)
    IN  IF adjacentPointsInIDirectionAreConsecutive(s.scanningMode)
        THEN [k \in 1..(nj * ni) |-> [lat |-> lat((k - 1) \div ni), lng |-> lng((k - 1) % ni)]]
        ELSE [k \in 1..(ni * nj) |-> [lat |-> lat((k - 1) % nj), lng |-> lng((k - 1) \div nj)]]

MaxAxis == 2         \* points along an axis of a small grid

U2(n) == <<(n \div 256) % 256, n % 256>>

\* the 22 bytes of a latitude/longitude grid definition, octets 7-28 of the section
LLBytes(a) ==
    U2(a.ni) \o U2(a.nj) \o SignMagnitude(a.firstLat, 3) \o SignMagnitude(a.firstLng, 3)
    \o <<128>> \o SignMagnitude(a.firstLat, 3) \o SignMagnitude(a.firstLng, 3)
    \o U2(a.di) \o U2(a.dj) \o <<a.scan>>

ScanningModes == {0, 32, 64, 96, 128, 160, 192, 224}

SmallGrids ==
    [ ni : 0..MaxAxis, nj : 0..MaxAxis, firstLat : {0, -45000}, firstLng : {0, 8388607},
      di : {1000}, dj : {1000, 65535}, scan : ScanningModes ]

\* one row of 32770 points spaced by the largest increment the wire can carry
LongRows ==
    [ ni : {32770}, nj : {1}, firstLat : {0}, firstLng : {0},
      di : {65535}, dj : {1000}, scan : {64, 192} ]

GridInputs == SmallGrids \cup LongRows

\* a caller decodes a latitude/longitude grid and asks for its points
InitPoints ==
    /\ entry = "Points"
    /\ arg \in GridInputs
    /\ data = LLBytes(arg)
    /\ pc = "Points"
    /\ r1 = Idle
    /\ attempts = <<>>
    /\ InitCommon

PointsCall ==
    /\ pc = "Points"
    /\ LET g == LatLongGrid_parseBytes(data).grid
       IN  ret' = [kind |-> "return", grid |-> g, points |-> LatLongGrid_Points(g)]
    /\ pc' = "done"
    /\ UNCHANGED <<entry, arg, data, rr, out, unconsumed, offset, zerosConsumed, r1, got, attempts>>

NextPoints == PointsCall

SpecPoints == InitPoints /\ [][NextPoints]_vars

----------------------------------------------------------------------------
(* A section decoder called on its own span.  The caller describes the     *)
(* section: the length it declares (decl), a selector (the flag byte of a  *)
(* Product Definition, the projection tag of a Grid Description, the table *)
(* reference of a Bitmap, the flag byte of a Binary Data section), the     *)
(* bytes that follow its fixed fields in the span (body), and where the    *)
(* span is cut short (keep, -1 for not at all).                            *)

MaxBody == 4         \* bytes after the fixed fields of a section called on its own

\* the fields of a Product Definition as its writer chose them
PDSRecord(a) ==
    [ section1Length |-> a.decl,
      table2Version |-> 3,
      center |-> 98,
      generatingProcessIdentifier |-> 145,
      gridDefinition |-> 255,
      section1Flags |-> a.sel,
      indicatorOfParameter |-> 169,
      indicatorOfTypeOfLevel |-> 1,
      heightPressureEtcOfLevels |-> 513,
      yearOfCentury |-> 22,
      month |-> 10,
      day |-> 23,
      hour |-> 6,
      minute |-> 30,
      unitOfTimeRange |-> 1,
      p1 |-> 2,
      p2 |-> 4,
      timeRangeIndicator |-> 10,
      numberIncludedInAverage |-> a.avg,
      numberMissingFromAveragesOrAccumulations |-> 7,
      centuryOfReferenceTimeOfData |-> 21,
      subCentre |-> 9,
      decimalScaleFactor |-> a.scale ]

\* each field written at its octet of the section (octet k is byte k - 1)
PDSEncode(f) ==
    U3(f.section1Length)
    \o << f.table2Version, f.center, f.generatingProcessIdentifier, f.gridDefinition,
          f.section1Flags, f.indicatorOfParameter, f.indicatorOfTypeOfLevel >>
    \o U2(f.heightPressureEtcOfLevels)
    \o << f.yearOfCentury, f.month, f.day, f.hour, f.minute, f.unitOfTimeRange,
          f.p1, f.p2, f.timeRangeIndicator >>
    \o U2(f.numberIncludedInAverage)
    \o << f.numberMissingFromAveragesOrAccumulations, f.centuryOfReferenceTimeOfData, f.subCentre >>
    \o SignMagnitude(f.decimalScaleFactor, 2)

SectionShape(kind, decls, sels, bitss, bodies, keeps, avgs, scales) ==
    [ kind : {kind}, decl : decls, sel : sels, bits : bitss, body : bodies, keep : keeps,
      avg : avgs, scale : scales ]

SectionInputs ==
    SectionShape("ProductDefinition", {0, 27, 28, 29, 28 + MaxBody}, {0, 192}, {0},
                 {0, MaxBody}, {-1}, {0, 260, 65535}, {0, -2, 260, 32767, -32767})
    \cup SectionShape("ProductDefinition", {28}, {0}, {0}, {0}, {27}, {260}, {-2})
    \cup SectionShape("GridDescription", {0, 3, 5, 6, 6 + MaxBody, 27, 28, 28 + MaxBody, 200},
                      {0, 1, 10}, {0}, {0, MaxBody, 21, 22, 22 + MaxBody}, {-1, 5}, {0}, {0})
    \cup SectionShape("Bitmap", {0, 5, 6, 6 + MaxBody, 7 + MaxBody, 200}, {0, 7}, {0},
                      {0, MaxBody, MaxBody + 2}, {-1, 5}, {0}, {0})
    \cup SectionShape("BinaryData", {0, 10, 11, 11 + MaxBody, 12 + MaxBody, 11 + 2 * MaxBody, 200}, {0, 32},
                      {8, 32}, {0, MaxBody, MaxBody + 1, 2 * MaxBody}, {-1, 10}, {0}, {0})

SectionBytes(a) ==
    LET full == CASE a.kind = "ProductDefinition" -> PDSEncode(PDSRecord(a)) \o Ramp(a.body, 50)
                  [] a.kind = "GridDescription" -> GDSBytes(a.decl, a.sel, a.body)
                  [] a.kind = "Bitmap" -> BMSBytes(a.decl, a.sel, a.body)
                  [] a.kind = "BinaryData" -> BDSBytes(a.decl, a.sel, a.bits, a.body)
    IN  IF a.keep < 0 \/ a.keep > Len(full) THEN full ELSE SubSeq(full, 1, a.keep)

\* a caller hands a span to one of the length-prefixed section decoders
InitSection ==
    /\ entry = "section"
    /\ arg \in SectionInputs
    /\ data = SectionBytes(arg)
    /\ pc = "section"
    /\ r1 = Idle
    /\ attempts = <<>>
    /\ InitCommon

\* s.parseBytes(data); for a Grid Description that decoded, s.LatLongGrid() as well
SectionCall ==
    /\ pc = "section"
    /\ LET r == CASE arg.kind = "ProductDefinition" -> ProductDefinition_parseBytes(data)
                  [] arg.kind = "GridDescription" -> GridDescription_parseBytes(data)
                  [] arg.kind = "Bitmap" -> Bitmap_parseBytes(data)
                  [] arg.kind = "BinaryData" ->
                        binaryDataSection_parseBytes(data)
       IN  ret' = IF r.panic THEN [kind |-> "panic"]
                  ELSE [ kind |-> "return", n |-> r.n, err |-> r.err, sec |-> r.sec,
                         latLongGrid |->
                             IF arg.kind = "GridDescription" /\ r.err = NoErr
                             THEN GridDescription_LatLongGrid(r.sec) ELSE <<>> ]
    /\ pc' = "done"
    /\ UNCHANGED <<entry, arg, data, rr, out, unconsumed, offset, zerosConsumed, r1, got, attempts>>

NextSection == SectionCall

SpecSection == InitSection /\ [][NextSection]_vars

----------------------------------------------------------------------------
(* gribio.peekParseType.  The bufio.Reader is the stream `data` with the   *)
(* read position `unconsumed`.  A uint64 is kept as its four 16-bit limbs, *)
(* most significant first.                                                 *)

\* uint64(u) for a uint32 u
Uint64FromUint32(u) == <<0, 0, u.hi, u.lo>>

\* binary.BigEndian.Uint32
BigEndian_Uint32(b) == Uint32(B(b, 0), B(b, 1), B(b, 2), B(b, 3))

\* binary.BigEndian.Uint64
BigEndian_Uint64(b) ==
    << B(b, 0) * 256 + B(b, 1), B(b, 2) * 256 + B(b, 3),
       B(b, 4) * 256 + B(b, 5), B(b, 6) * 256 + B(b, 7) >>

\* rr.Peek(n): the next n bytes without advancing, or an error when fewer are left
Reader_Peek(d, pos, n) ==
    IF Len(d) - pos < n THEN [bytes |-> SliceFrom(d, pos), err |-> <<"EOF">>]
    ELSE [bytes |-> Slice(d, pos, pos + n), err |-> NoErr]

PeekFail(msg, err) ==
    [parseType |-> "parseAsInvalidMessage", messageLen |-> <<0, 0, 0, 0>>, err |-> <<msg>> \o err]

\* peekParseType reading the edition-1 length one byte further on
peekParseType_lengthAt5(d, pos) ==
    LET pk == Reader_Peek(d, pos, 16)
        h == pk.bytes
    IN  IF pk.err # NoErr THEN PeekFail("error while expecting GRIB record", pk.err)
        ELSE IF Slice(h, 0, 4) # GRIB THEN PeekFail("first four bytes", NoErr)
        ELSE IF B(h, 7) = 1
        THEN [ parseType |-> "parseAsGRIB1",
               messageLen |-> Uint64FromUint32(BigEndian_Uint32(<<0, B(h, 5), B(h, 6), B(h, 7)>>)),
               err |-> NoErr ]
        ELSE IF B(h, 7) = 2
        THEN [ parseType |-> "parseAsGRIB2",
               messageLen |-> BigEndian_Uint64(Slice(h, 8, 8 + 8)),
               err |-> NoErr ]
        ELSE PeekFail("invalid edition, wanted 1 or 2", NoErr)

peekParseType(d, pos) ==
    LET pk == Reader_Peek(d, pos, 16)
        h == pk.bytes
    IN  IF pk.err # NoErr THEN PeekFail("error while expecting GRIB record", pk.err)
        ELSE IF Slice(h, 0, 4) # GRIB THEN PeekFail("first four bytes", NoErr)
        ELSE IF B(h, 7) = 1
        THEN [ parseType |-> "parseAsGRIB1",
               messageLen |-> Uint64FromUint32(BigEndian_Uint32(<<0, B(h, 4), B(h, 5), B(h, 6)>>)),
               err |-> NoErr ]
        ELSE IF B(h, 7) = 2
        THEN [ parseType |-> "parseAsGRIB2",
               messageLen |-> BigEndian_Uint64(Slice(h, 8, 8 + 8)),
               err |-> NoErr ]
        ELSE PeekFail("invalid edition, wanted 1 or 2", NoErr)

\* the start of a stream as the reader sees it after zero padding was skipped
PeekInputs ==
    [ zeros : 0..MaxZeros,
      magic : BOOLEAN,
      edition : {0, 1, 2, 3},
      len3 : { <<0, 0, 0>>, <<0, 0, 55>>, <<1, 2, 3>>, <<255, 255, 255>> },
      len8 : { <<0, 0, 0, 0, 0, 0, 0, 0>>, <<0, 0, 0, 0, 0, 0, 1, 0>>,
               <<1, 2, 3, 4, 5, 6, 7, 8>>, <<255, 255, 255, 255, 255, 255, 255, 255>> },
      avail : {7, 15, 16, 20} ]

PeekBytes(a) ==
    Fill(a.zeros, 0)
    \o SubSeq((IF a.magic THEN GRIB ELSE <<71, 82, 73, 67>>) \o a.len3 \o <<a.edition>>
              \o a.len8 \o Ramp(4, 0), 1, a.avail)

\* ReadFile has skipped the zero padding and is about to peek
InitPeek ==
    /\ entry = "peekParseType"
    /\ arg \in PeekInputs
    /\ data = PeekBytes(arg)
    /\ pc = "peekParseType"
    /\ r1 = Idle
    /\ attempts = <<>>
    /\ out = <<>>
    /\ rr = NewReader
    /\ unconsumed = arg.zeros
    /\ offset = arg.zeros
    /\ zerosConsumed = 0
    /\ got = NoGot
    /\ ret = NoReturn

PeekCall ==
    /\ pc = "peekParseType"
    /\ ret' = [kind |-> "return"] @@ peekParseType(data, unconsumed)
    /\ pc' = "done"
    /\ UNCHANGED <<entry, arg, data, rr, out, unconsumed, offset, zerosConsumed, r1, got, attempts>>

NextPeek == PeekCall

SpecPeek == InitPeek /\ [][NextPeek]_vars

----------------------------------------------------------------------------
(* gribio.ReadFile.  The stream is `data`; rr is the bufio.Reader wrapped  *)
(* around it; the underlying io.Reader hands over at most arg.chunk bytes  *)
(* per call and io.EOF once the stream is exhausted.  offset is a Go int,  *)
(* kept as the four 16-bit limbs of its two's complement.  got holds the   *)
(* locals parseType and messageLen, the bytes rr.Read copied into          *)
(* recordBytes and their count; zerosConsumed holds skipCount.             *)

\* the size of the buffer bufio.NewReader allocates
defaultBufSize == 4096

\* the uint64 of a small non-negative integer
Uint64FromInt(n) == <<0, 0, n \div 65536, n % 65536>>

\* a + b on 64 bits
Add64(a, b) ==
    LET s4 == a[4] + b[4]
        s3 == a[3] + b[3] + s4 \div 65536
        s2 == a[2] + b[2] + s3 \div 65536
        s1 == a[1] + b[1] + s2 \div 65536
    IN  << s1 % 65536, s2 % 65536, s3 % 65536, s4 % 65536 >>

\* min(m, k) for a uint64 m and a small integer k
Uint64Min(m, k) == IF m[1] = 0 /\ m[2] = 0 /\ m[3] = 0 /\ m[4] < k THEN m[4] ELSE k

\* int(m) for a uint64 m below 2^24
Uint64Int(m) == m[3] * 65536 + m[4]

\* bufio.Reader.fill: one Read of the underlying reader into the free part of the buffer
Reader_fill(d, b, chunk) ==
    LET free == defaultBufSize - (b.w - b.r)
        left == Len(d) - b.w
        n == IF chunk < left THEN (IF chunk < free THEN chunk ELSE free)
             ELSE (IF left < free THEN left ELSE free)
    IN  IF left = 0 THEN [b EXCEPT !.err = <<"EOF">>] ELSE [b EXCEPT !.w = @ + n]

\* In the loops below a value that the next round starts from is bound through a
\* singleton set, so that it is computed once before the round begins.

\* bufio.Reader.ReadByte
RECURSIVE Reader_ReadByte(_, _, _)
Reader_ReadByte(d, b, chunk) ==
    IF b.r = b.w
    THEN IF b.err # NoErr THEN [b |-> [b EXCEPT !.err = NoErr], c |-> 0, err |-> b.err]
         ELSE CHOOSE rb \in { Reader_ReadByte(d, filled, chunk) :
                                filled \in {Reader_fill(d, b, chunk)} } : TRUE
    ELSE [b |-> [b EXCEPT !.r = @ + 1], c |-> B(d, b.r), err |-> NoErr]

\* bufio.Reader.UnreadByte after a ReadByte that returned a byte
Reader_UnreadByte(b) == [b EXCEPT !.r = @ - 1]

\* skipZeros, entered with the count so far
RECURSIVE skipZeros(_, _, _, _)
skipZeros(d, b, chunk, skipCount) ==
    CHOOSE s \in
        { IF rb.err # NoErr THEN [b |-> rb.b, skipCount |-> skipCount, err |-> rb.err]
          ELSE IF rb.c = 0 THEN skipZeros(d, rb.b, chunk, skipCount + 1)
          ELSE [b |-> Reader_UnreadByte(rb.b), skipCount |-> skipCount, err |-> NoErr] :
            rb \in {Reader_ReadByte(d, b, chunk)} } : TRUE

\* the buffer after bufio.Reader.Peek(n): filled while fewer than n bytes are buffered,
\* the buffer is not full and no fill has failed; the error is taken when it ends short
RECURSIVE Reader_Peek_fill(_, _, _, _)
Reader_Peek_fill(d, b, n, chunk) ==
    IF b.w - b.r < n /\ b.w - b.r < defaultBufSize /\ b.err = NoErr
    THEN CHOOSE pb \in { Reader_Peek_fill(d, filled, n, chunk) :
                           filled \in {Reader_fill(d, b, chunk)} } : TRUE
    ELSE IF b.w - b.r < n THEN [b EXCEPT !.err = NoErr] ELSE b

\* bufio.Reader.Read(p) for len(p) = m: [b, n, err]
Reader_Read(d, b, chunk, m) ==
    LET left == Len(d) - b.w
        under == IF chunk < left THEN chunk ELSE left
    IN  IF m = <<0, 0, 0, 0>>
        THEN IF b.w - b.r > 0 THEN [b |-> b, n |-> 0, err |-> NoErr]
             ELSE [b |-> [b EXCEPT !.err = NoErr], n |-> 0, err |-> b.err]
        ELSE IF b.r = b.w
        THEN IF b.err # NoErr THEN [b |-> [b EXCEPT !.err = NoErr], n |-> 0, err |-> b.err]
             ELSE IF left = 0 THEN [b |-> b, n |-> 0, err |-> <<"EOF">>]
             ELSE LET n == Uint64Min(m, IF under < defaultBufSize THEN under ELSE defaultBufSize)
                  IN  [ b |-> IF Uint64Min(m, defaultBufSize) = defaultBufSize
                              THEN [b EXCEPT !.r = @ + n, !.w = @ + n]
                              ELSE [b EXCEPT !.r = @ + n,
                                             !.w = @ + (IF under < defaultBufSize THEN under
                                                        ELSE defaultBufSize)],
                        n |-> n, err |-> NoErr ]
        ELSE LET n == Uint64Min(m, b.w - b.r)
             IN  [b |-> [b EXCEPT !.r = @ + n], n |-> n, err |-> NoErr]

\* make([]byte, int(m)): a length of 2^48 or more, or one that is negative as an int,
\* panics; an allocation of 4 GiB or more may exhaust memory
makeOutcomes(m) ==
    IF m[1] # 0 THEN {"panic"}
    ELSE IF m[2] # 0 THEN {"ok", "fatal"}
    ELSE {"ok"}

NoLocals == [parseType |-> "parseAsInvalidMessage", messageLen |-> <<0, 0, 0, 0>>,
             read |-> <<>>, readCount |-> 0]

\* recordBytes of an edition-1 message: what rr.Read copied, then the zeros make left
recordBytes(g) == g.read \o Fill(Uint64Int(g.messageLen) - g.readCount, 0)

\* return &File{grib1Messages}, nil
ReadFile_file(msgs) == [kind |-> "return", file |-> << [grib1Messages |-> msgs] >>, err |-> NoErr]

\* return nil, fmt.Errorf("<wrap>: %w", err)
ReadFile_fail(wrap, err) == [kind |-> "return", file |-> <<>>, err |-> <<wrap>> \o err]

MaxItems == 2        \* messages in a stream handed to ReadFile
ShortRead == 20      \* bytes a slow underlying reader hands over per call

ReaderChunks == {1, ShortRead, defaultBufSize}

\* an edition-2 message: the 16-byte indicator section declaring len8, then body bytes
Grib2Bytes(it) == GRIB \o <<0, 0, 0, 2>> \o it.len8 \o Ramp(it.body, 0)

Grib2Items ==
    { [kind |-> "grib2", len8 |-> <<0, 0, 0, 0, 0, 0, 0, 0>>, body |-> 0],
      [kind |-> "grib2", len8 |-> <<0, 0, 0, 0, 0, 0, 0, 16>>, body |-> 0],
      [kind |-> "grib2", len8 |-> <<0, 0, 0, 0, 0, 0, 0, 16 + MaxBody>>, body |-> MaxBody],
      [kind |-> "grib2", len8 |-> <<0, 0, 0, 1, 0, 0, 0, 0>>, body |-> MaxBody],
      [kind |-> "grib2", len8 |-> <<255, 255, 255, 255, 255, 255, 255, 255>>, body |-> MaxBody] }

\* a well-formed edition-1 message with all its sections, the same without its end
\* sentinel, and one whose grid description declares 3 bytes
Grib1Items ==
    { [kind |-> "grib1", m |-> m] :
        m \in { [Base EXCEPT !.flags = 192],
                [Base EXCEPT !.flags = 192, !.end = FALSE],
                [Base EXCEPT !.flags = 128, !.gdsDecl = 3] } }

ItemBytes(it) == IF it.kind = "grib1" THEN MsgBytes(it.m) ELSE Grib2Bytes(it)

FileInputs ==
    UNION { [ items : [1..n -> [zeros : ZeroRuns, item : Grib1Items \cup Grib2Items]],
              trailing : ZeroRuns,
              chunk : ReaderChunks ] : n \in 0..MaxItems }

RECURSIVE ItemsBytes(_, _)
ItemsBytes(is, k) ==
    IF k > Len(is) THEN <<>>
    ELSE Fill(is[k].zeros, 0) \o ItemBytes(is[k].item) \o ItemsBytes(is, k + 1)

FileBytes(a) == ItemsBytes(a.items, 1) \o Fill(a.trailing, 0)

\* a caller hands a stream to ReadFile
InitReadFile ==
    /\ entry = "ReadFile"
    /\ arg \in FileInputs
    /\ data = FileBytes(arg)
    /\ rr = NewReader
    /\ pc = "ReadFile"
    /\ out = <<>>
    /\ unconsumed = 0
    /\ offset = Uint64FromInt(0)
    /\ zerosConsumed = 0
    /\ r1 = Idle
    /\ got = NoLocals
    /\ attempts = <<>>
    /\ ret = NoReturn

\* the head of the loop: skipZeros, then return at the end of the stream or count the zeros
ReadFileSkipZeros ==
    /\ pc = "ReadFile"
    /\ LET s == skipZeros(data, rr, arg.chunk, 0)
       IN  /\ rr' = s.b
           /\ zerosConsumed' = s.skipCount
           /\ IF s.err # NoErr
              THEN /\ ret' = IF s.err = <<"EOF">> THEN ReadFile_file(out)
                             ELSE ReadFile_fail("error parsing file", s.err)
                   /\ pc' = "done"
                   /\ UNCHANGED offset
              ELSE /\ offset' = Add64(offset, Uint64FromInt(s.skipCount))
                   /\ pc' = "ReadFile_peek"
                   /\ ret' = ret
    /\ UNCHANGED <<entry, arg, data, out, unconsumed, r1, got, attempts>>

\* peekParseType(rr)
ReadFilePeek ==
    /\ pc = "ReadFile_peek"
    /\ rr' = Reader_Peek_fill(data, rr, 16, arg.chunk)
    /\ LET p == peekParseType(data, rr.r)
       IN  IF p.err # NoErr
           THEN /\ ret' = ReadFile_fail("error encountered when expecting a GRIB message", p.err)
                /\ pc' = "done"
                /\ UNCHANGED got
           ELSE /\ got' = [NoLocals EXCEPT !.parseType = p.parseType, !.messageLen = p.messageLen]
                /\ pc' = "ReadFile_read"
                /\ ret' = ret
    /\ UNCHANGED <<entry, arg, data, out, unconsumed, offset, zerosConsumed, r1, attempts>>

\* recordBytes := make([]byte, int(messageLen)), then rr.Read(recordBytes)
ReadFileRead ==
    /\ pc = "ReadFile_read"
    /\ \E alloc \in makeOutcomes(got.messageLen) :
         IF alloc # "ok"
         THEN /\ ret' = [kind |-> alloc]
              /\ pc' = "done"
              /\ UNCHANGED <<rr, got>>
         ELSE LET rd == Reader_Read(data, rr, arg.chunk, got.messageLen)
              IN  /\ rr' = rd.b
                  /\ IF rd.err # NoErr
                     THEN /\ ret' = ReadFile_fail("error while reading message of expected length",
                                                  rd.err)
                          /\ pc' = "done"
                          /\ UNCHANGED got
                     ELSE /\ got' = [got EXCEPT !.read = Slice(data, rr.r, rr.r + rd.n),
                                                !.readCount = rd.n]
                          /\ pc' = "ReadFile_switch"
                          /\ ret' = ret
    /\ UNCHANGED <<entry, arg, data, out, unconsumed, offset, zerosConsumed, r1, attempts>>

\* case parseAsGRIB1: ReadFile calls grib1.Read1(recordBytes)
ReadFileGrib1Call ==
    /\ pc = "ReadFile_switch"
    /\ got.parseType = "parseAsGRIB1"
    /\ r1' = Read1_enter(recordBytes(got))
    /\ attempts' = Append(attempts, rr.r - got.readCount)
    /\ pc' = "Read1"
    /\ UNCHANGED <<entry, arg, data, rr, out, unconsumed, offset, zerosConsumed, got, ret>>

\* Read1 returns to ReadFile: return its error, or append and offset += int(messageLen)
ReadFileGrib1Return ==
    /\ entry = "ReadFile"
    /\ pc = "Read1"
    /\ r1.pc = "return"
    /\ IF r1.ret.err # NoErr
       THEN /\ ret' = ReadFile_fail("error reading GRIB1 message", r1.ret.err)
            /\ pc' = "done"
            /\ UNCHANGED <<out, offset>>
       ELSE /\ out' = Append(out, r1.ret.msg)
            /\ offset' = Add64(offset, got.messageLen)
            /\ pc' = "ReadFile"
            /\ ret' = ret
    /\ UNCHANGED <<entry, arg, data, rr, unconsumed, zerosConsumed, r1, got, attempts>>

\* case parseAsGRIB2: the message is skipped, then offset += int(messageLen)
ReadFileGrib2 ==
    /\ pc = "ReadFile_switch"
    /\ got.parseType = "parseAsGRIB2"
    /\ offset' = Add64(offset, got.messageLen)
    /\ pc' = "ReadFile"
    /\ UNCHANGED <<entry, arg, data, rr, out, unconsumed, zerosConsumed, r1, got, attempts, ret>>

NextReadFile ==
    \/ ReadFileSkipZeros \/ ReadFilePeek \/ ReadFileRead
    \/ ReadFileGrib1Call \/ Read1Steps \/ ReadFileGrib1Return \/ ReadFileGrib2

SpecReadFile == InitReadFile /\ [][NextReadFile]_vars

\* ReadFile runs on its caller's goroutine with nothing to wait for
SpecReadFileFair == InitReadFile /\ [][NextReadFile]_vars /\ WF_vars(NextReadFile)

----------------------------------------------------------------------------
(* Readings of the raw buffer used to state the properties: they are taken *)
(* from the wire layout, not from what the decoders stored.                *)

DeclaredLength(d) == B(d, 4) * 65536 + B(d, 5) * 256 + B(d, 6)

\* the Product Definition's flag byte: octet 8 of the section that follows the Indicator
FlagByte(d) == B(d, 8 + 7)

\* the 3-byte length that a section starting at pos declares, or -1 past the end of the buffer
DeclaredAt(d, pos) ==
    IF pos + 3 <= Len(d) THEN B(d, pos) * 65536 + B(d, pos + 1) * 256 + B(d, pos + 2) ELSE -1

Has(sq, x) == \E i \in 1..Len(sq) : sq[i] = x

OptLen(opt, field) == IF opt = <<>> THEN 0 ELSE opt[1][field]

\* 8 for the Indicator plus the declared length of every section decoded so far
SectionsTotal(f) ==
    8 + OptLen(f.sec1, "section1Length")
      + (IF Has(f.invoked, "GridDescription") THEN OptLen(f.sec2, "section2Length") ELSE 0)
      + (IF Has(f.invoked, "Bitmap") THEN OptLen(f.sec3, "section3Length") ELSE 0)
      + (IF Has(f.invoked, "BinaryData") THEN OptLen(f.sec4, "section4Length") ELSE 0)

\* the four bytes at the End-section position are the sentinel
SentinelAt(d, pos) == pos + 4 <= Len(d) /\ Slice(d, pos, pos + 4) = SEVENS

\* a message Read1 accepts when it is handed the message's bytes and nothing else
ValidAlone(m) ==
    LET f == Read1(MsgBytes(m)) IN f.pc = "return" /\ f.ret.err = NoErr /\ f.ret.n = Len(MsgBytes(m))

ValidStream(a) == \A k \in 1..Len(a.chunks) : ValidAlone(a.chunks[k].m)

ReadFailed == entry = "Read" /\ got.err # NoErr

----------------------------------------------------------------------------
(* C1: for a buffer that is a concatenation of valid messages with runs of *)
(* zero bytes before, between and after them, Read succeeds having        *)
(* consumed len(data) bytes, and offset + len(unconsumed) = len(data) in   *)
(* every iteration.                                                        *)
C1_ValidStreamConsumed ==
    (entry = "Read" /\ ValidStream(arg)) =>
        /\ offset + Len(SliceFrom(data, unconsumed)) = Len(data)
        /\ pc = "done" => (ret.kind = "return" /\ ret.err = NoErr /\ offset = Len(data))

(* C2: after a successful Read every element of the returned slice is a    *)
(* non-nil Message and the slice holds as many elements as the buffer      *)
(* holds messages, also when the buffer ends with zero padding or holds    *)
(* only zero bytes.                                                        *)
C2_OneMessagePerAssembly ==
    (entry = "Read" /\ pc = "done" /\ ret.kind = "return" /\ ret.err = NoErr) =>
        /\ \A i \in 1..Len(ret.out) : ret.out[i] # <<>>
        /\ Len(ret.out) = Len(arg.chunks)

(* C3: Read1 is all-or-nothing: for every input it returns either a        *)
(* Message, the declared message length and no error, or no Message, 0 and *)
(* an error.                                                               *)
C3_AllOrNothing ==
    (entry = "Read1" /\ pc = "done") =>
        /\ ret.kind = "return"
        /\ \/ ret.msg # <<>> /\ ret.err = NoErr /\ ret.n = DeclaredLength(data)
           \/ ret.msg = <<>> /\ ret.err # NoErr /\ ret.n = 0

(* C4: in Read1 the Grid Description decoder runs, and the Message carries *)
(* a Grid Description, iff bit 0x80 of the Product Definition flag byte is *)
(* set; the same for the Bitmap and bit 0x40, independently; a skipped     *)
(* section consumes no bytes.                                              *)
C4_OptionalSectionsFollowFlags ==
    (entry = "Read1" /\ Len(r1.invoked) >= 2) =>
        LET grid == (FlagByte(data) \div 128) % 2 = 1
            bitmap == (FlagByte(data) \div 64) % 2 = 1
        IN  /\ Has(r1.invoked, "GridDescription") => grid
            /\ Has(r1.invoked, "Bitmap") => bitmap
            /\ Has(r1.invoked, "BinaryData") =>
                  /\ Has(r1.invoked, "GridDescription") <=> grid
                  /\ Has(r1.invoked, "Bitmap") <=> bitmap
            /\ r1.pc = "sec4" =>
                  LET pdsLen == DeclaredAt(data, 8)
                      gridLen == IF grid THEN DeclaredAt(data, 8 + pdsLen) ELSE 0
                      bitmapLen == IF bitmap THEN DeclaredAt(data, 8 + pdsLen + gridLen) ELSE 0
                  IN  r1.unconsumed = 8 + pdsLen + gridLen + bitmapLen
            /\ (r1.pc = "return" /\ r1.ret.err = NoErr) =>
                  /\ r1.ret.msg[1].grid # <<>> <=> grid
                  /\ r1.ret.msg[1].bitmap # <<>> <=> bitmap

\* a message with a Bitmap and no Grid Description was assembled
C4_Witness ==
    /\ entry = "Read1" /\ pc = "done" /\ ret.kind = "return" /\ ret.err = NoErr
    /\ FlagByte(data) = 64
    /\ ret.msg[1].bitmap # <<>> /\ ret.msg[1].grid = <<>>

(* C5: Read1 succeeds only if 8 + the declared lengths of the sections it  *)
(* decoded + 4 equals the message length the Indicator declares; any other *)
(* total, smaller or larger, makes it fail with the length-mismatch error. *)
C5_TotalMustMatchDeclared ==
    (entry = "Read1" /\ r1.pc = "return") =>
        LET total == SectionsTotal(r1) + 4
        IN  /\ r1.ret.err = NoErr => total = DeclaredLength(data)
            /\ ( /\ Has(r1.invoked, "End")
                 /\ SentinelAt(data, SectionsTotal(r1))
                 /\ total # DeclaredLength(data) )
               => /\ r1.ret.err = <<"consumed bytes differ from message length in header">>
                  /\ r1.ret.msg = <<>>

\* every section decoded, the sentinel was found, and the total fell short of the declared length
C5_Witness ==
    /\ entry = "Read1" /\ pc = "done" /\ ret.kind = "return"
    /\ Has(r1.invoked, "End") /\ SentinelAt(data, SectionsTotal(r1))
    /\ SectionsTotal(r1) + 4 < DeclaredLength(data)
    /\ ret.err = <<"consumed bytes differ from message length in header">>

(* C6: if the total length the Indicator declares exceeds the bytes        *)
(* supplied to Read1, decoding fails in the Indicator step, before the     *)
(* Product Definition decoder or any later decoder is invoked.             *)
C6_TruncationFailsInIndicator ==
    ( /\ entry = "Read1" /\ r1.pc # "sec0"
      /\ Len(data) >= 8 /\ DeclaredLength(data) > Len(data) )
    => /\ r1.pc = "return"
       /\ r1.invoked = <<"Indicator">>
       /\ r1.ret.msg = <<>>
       /\ r1.ret.err # NoErr /\ r1.ret.err[1] = "error parsing indicator section"

\* a message with the right magic and edition whose declared length exceeds the buffer was refused
C6_Witness ==
    /\ entry = "Read1" /\ pc = "done"
    /\ Len(data) >= 8 /\ DeclaredLength(data) > Len(data)
    /\ Slice(data, 0, 4) = GRIB /\ B(data, 7) = 1
    /\ ret.kind = "return" /\ ret.err # NoErr

(* C7: if the four bytes at the End-section position are not "7777", Read1 *)
(* fails, even when every earlier section decoded and the consumed total   *)
(* would equal the declared message length.                                *)
C7_BadSentinelFails ==
    ( /\ entry = "Read1" /\ r1.pc = "return"
      /\ Has(r1.invoked, "End")
      /\ ~SentinelAt(data, SectionsTotal(r1)) )
    => r1.ret.err # NoErr /\ r1.ret.msg = <<>>

\* the sentinel was wrong although the sections add up to the declared length
C7_Witness ==
    /\ entry = "Read1" /\ pc = "done" /\ ret.kind = "return"
    /\ Has(r1.invoked, "End")
    /\ SectionsTotal(r1) + 4 = DeclaredLength(data)
    /\ SectionsTotal(r1) + 4 <= Len(data)
    /\ ~SentinelAt(data, SectionsTotal(r1))
    /\ ret.err # NoErr

(* C8: if assembly of a message fails, Read aborts the whole read: it      *)
(* returns a nil slice and an error, none of the messages decoded before   *)
(* the failure, and attempts no message after the failing one.             *)
C8_FailureAbortsRead ==
    ReadFailed =>
        /\ pc \in {"Read_got", "done"}
        /\ r1.pc = "return" /\ r1.ret.err # NoErr
        /\ pc = "done" => (ret.kind = "return" /\ ret.out = <<>> /\ ret.err # NoErr)

\* the second of three messages failed after the first was decoded
C8_Witness ==
    /\ ReadFailed /\ pc = "done"
    /\ Len(out) >= 1 /\ out[1] # <<>>
    /\ Len(attempts) = 2 /\ Len(arg.chunks) = 3

(* C9: when assembly of a message fails, the offset the stream reader      *)
(* reports is the offset at which the failing message began: all zero      *)
(* bytes skipped so far, those right before the failing message included,  *)
(* plus the lengths of the messages decoded before.                        *)
C9_ErrorOffsetIsMessageStart ==
    (ReadFailed /\ pc = "done") => ret.errOffset = attempts[Len(attempts)]

RECURSIVE Pow2(_)
Pow2(k) == IF k = 0 THEN 1 ELSE 2 * Pow2(k - 1)

(* C11: Parse32 returns (-1)^sign x B x 2^(4(A-64) - 24), sign being bit 7  *)
(* of byte 0, A bits 0-6 of byte 0 and B the 24-bit big-endian value of    *)
(* bytes 1-3; [0,0,0,0] decodes to exactly 0 and [0xC2,0x76,0xA0,0x00] to  *)
(* -118.625 = -949 x 2^-3.                                                 *)
C11_Parse32Formula ==
    (entry = "Parse32" /\ pc = "done") =>
        LET sign == data[1] \div 128
            A == data[1] % 128
            Bv == data[2] * 65536 + data[3] * 256 + data[4]
            E == 4 * (A - 64) - 24
            v == ret.value
        IN  /\ Bv = 0 => v.mant = 0
            /\ Bv # 0 =>
                  /\ v.neg = (sign = 1)
                  /\ v.mant # 0
                  /\ v.exp - E \in 0..23
                  /\ Bv % Pow2(v.exp - E) = 0
                  /\ Bv \div Pow2(v.exp - E) = v.mant
            /\ data = <<0, 0, 0, 0>> => Float64Eq(v, [neg |-> FALSE, mant |-> 0, exp |-> 0])
            /\ data = <<194, 118, 160, 0>> => Float64Eq(v, [neg |-> TRUE, mant |-> 949, exp |-> -3])

\* the worked example was decoded
C11_Witness ==
    /\ entry = "Parse32" /\ pc = "done"
    /\ data = <<194, 118, 160, 0>>
    /\ ret.value = [neg |-> TRUE, mant |-> 949, exp |-> -3]

\* the coordinate first + index * increment as an exact integer
ExactCoordinate(first, index, increment) == WideAdd(Wide(first), WideMul(index, increment))

(* C12: Points emits Ni x Nj points, each the first grid point plus axis    *)
(* index x corrected increment, the parallel increment negated iff the     *)
(* scanning mode does not scan in +i and the meridian increment iff it     *)
(* does not scan in +j; the order is meridian-major when points vary       *)
(* fastest along the parallel, else parallel-major.  The 2 x 2 grid from   *)
(* (0,0) with 1-degree increments gives (0,0),(0,1),(1,0),(1,1), and with  *)
(* the +i flag reversed (0,0),(0,-1),(1,0),(1,-1).                         *)
C12_PointsOrderAndSigns ==
    (entry = "Points" /\ pc = "done") =>
        LET plusI == (arg.scan \div 128) % 2 = 0
            plusJ == (arg.scan \div 64) % 2 = 1
            parallelFastest == (arg.scan \div 32) % 2 = 0
            ci == IF plusI THEN arg.di ELSE 0 - arg.di
            cj == IF plusJ THEN arg.dj ELSE 0 - arg.dj
            pts == ret.points
            small == [ni |-> 2, nj |-> 2, firstLat |-> 0, firstLng |-> 0, di |-> 1000, dj |-> 1000]
        IN  /\ Len(pts) = arg.ni * arg.nj
            /\ \A k \in 1..Len(pts) :
                  LET i == IF parallelFastest THEN (k - 1) % arg.ni ELSE (k - 1) \div arg.nj
                      j == IF parallelFastest THEN (k - 1) \div arg.ni ELSE (k - 1) % arg.nj
                  IN  /\ Wide(pts[k].lat) = ExactCoordinate(arg.firstLat, j, cj)
                      /\ Wide(pts[k].lng) = ExactCoordinate(arg.firstLng, i, ci)
            /\ arg = small @@ [scan |-> 64] =>
                  pts = << [lat |-> 0, lng |-> 0], [lat |-> 0, lng |-> 1000],
                           [lat |-> 1000, lng |-> 0], [lat |-> 1000, lng |-> 1000] >>
            /\ arg = small @@ [scan |-> 192] =>
                  pts = << [lat |-> 0, lng |-> 0], [lat |-> 0, lng |-> -1000],
                           [lat |-> 1000, lng |-> 0], [lat |-> 1000, lng |-> -1000] >>

(* C13: building a Product Definition by writing each field at its octet   *)
(* and decoding it gives every field back; the decoded decimal scale       *)
(* factor is the sign-magnitude value of octets 27-28 and the decoded      *)
(* number included in average the unsigned value of octets 22-23, each     *)
(* unaffected by the other's octets.                                       *)
C13_ProductDefinitionRoundTrip ==
    ( /\ entry = "section" /\ pc = "done" /\ arg.kind = "ProductDefinition"
      /\ ret.kind = "return" /\ ret.err = NoErr )
    => /\ ret.sec = PDSRecord(arg)
       /\ ret.sec.numberIncludedInAverage = B(data, 21) * 256 + B(data, 22)
       /\ ret.sec.decimalScaleFactor =
             (IF B(data, 26) >= 128 THEN -1 ELSE 1) * ((B(data, 26) % 128) * 256 + B(data, 27))

(* C14: for every input buffer Read1 ends by returning a Message or an     *)
(* error: no section decoder indexes or slices its span out of bounds,     *)
(* whatever lengths the sections declare, a Grid Description or Bitmap     *)
(* declaring fewer than 6 bytes and a latitude/longitude Grid Description  *)
(* declaring fewer than 28 included.                                       *)
C14_NoOutOfRangeAccess ==
    entry = "Read1" => (r1.pc # "panic" /\ ret.kind # "panic")

(* C15: a Grid Description whose projection tag is not 0 and whose         *)
(* declared length fits the span decodes successfully, keeping bytes       *)
(* [6, declared length) of the section as an opaque payload; LatLongGrid() *)
(* returns a decoded grid iff the projection tag is 0, nil otherwise.      *)
C15_OpaqueGridPayload ==
    ( /\ entry = "section" /\ pc = "done" /\ arg.kind = "GridDescription"
      /\ Len(data) >= 6 )
    => LET tag == B(data, 5)
           decl == DeclaredAt(data, 0)
       IN  /\ (tag # 0 /\ decl <= Len(data)) =>
                 /\ ret.kind = "return" /\ ret.err = NoErr
                 /\ ret.sec.parsedKind = "unparsedGridDescription"
                 /\ ret.sec.parsedValue = SubSeq(data, 7, decl)
                 /\ ret.latLongGrid = <<>>
           /\ (ret.kind = "return" /\ ret.err = NoErr) =>
                 (ret.latLongGrid # <<>> <=> tag = 0)

(* C16: given 16 peeked bytes, peekParseType requires bytes 0-3 to be      *)
(* "GRIB"; if byte 7 is 1 it returns GRIB1 with the big-endian 3-byte      *)
(* value at offsets 4-6 as length; if byte 7 is 2 it returns GRIB2 with    *)
(* the big-endian 8-byte value at offsets 8-15; any other edition or a     *)
(* wrong magic is an error; peeking consumes no bytes of the stream.       *)
C16_PeekParseType ==
    (entry = "peekParseType" /\ pc = "done" /\ Len(data) - arg.zeros >= 16) =>
        LET h(i) == B(data, arg.zeros + i)
            magic == <<h(0), h(1), h(2), h(3)>> = <<71, 82, 73, 66>>
        IN  /\ ~magic => ret.err # NoErr
            /\ (magic /\ h(7) = 1) =>
                  /\ ret.err = NoErr /\ ret.parseType = "parseAsGRIB1"
                  /\ ret.messageLen = <<0, 0, h(4), h(5) * 256 + h(6)>>
            /\ (magic /\ h(7) = 2) =>
                  /\ ret.err = NoErr /\ ret.parseType = "parseAsGRIB2"
                  /\ ret.messageLen = << h(8) * 256 + h(9), h(10) * 256 + h(11),
                                         h(12) * 256 + h(13), h(14) * 256 + h(15) >>
            /\ (magic /\ h(7) \notin {1, 2}) => ret.err # NoErr
            /\ unconsumed = arg.zeros

\* an edition-1 header declaring 0x010203 bytes was peeked behind zero padding
C16_Witness ==
    /\ entry = "peekParseType" /\ pc = "done"
    /\ arg.zeros = MaxZeros /\ arg.magic /\ arg.edition = 1 /\ arg.len3 = <<1, 2, 3>>
    /\ Len(data) - arg.zeros >= 16
    /\ ret.parseType = "parseAsGRIB1" /\ ret.messageLen = <<0, 0, 1, 515>>

DecoderRank(name) ==
    CASE name = "Indicator" -> 1
      [] name = "ProductDefinition" -> 2
      [] name = "GridDescription" -> 3
      [] name = "Bitmap" -> 4
      [] name = "BinaryData" -> 5
      [] name = "End" -> 6

\* the decoders invoked so far form a prefix of Indicator, Product Definition,
\* (Grid Description), (Bitmap), Binary Data, End; a decoder after the Indicator
\* ran only on a buffer whose Indicator is sound, one after the Product
\* Definition only on a sound Product Definition
DecodersInOrder ==
    LET inv == r1.invoked
    IN  /\ \A k \in 1..Len(inv) - 1 : DecoderRank(inv[k]) < DecoderRank(inv[k + 1])
        /\ Len(inv) >= 1 => inv[1] = "Indicator"
        /\ Len(inv) >= 2 => inv[2] = "ProductDefinition"
        /\ \A k \in 1..Len(inv) : inv[k] = "End" => (k > 1 /\ inv[k - 1] = "BinaryData")
        /\ Len(inv) >= 2 =>
              /\ Len(data) >= 8
              /\ <<B(data, 0), B(data, 1), B(data, 2), B(data, 3)>> = <<71, 82, 73, 66>>
              /\ B(data, 7) = 1
              /\ DeclaredLength(data) <= Len(data)
        /\ Len(inv) >= 3 =>
              /\ Len(data) - 8 >= 28
              /\ DeclaredAt(data, 8) <= Len(data) - 8

\* a decoder is invoked only while no earlier decoder has failed, and after a
\* failure the list of invoked decoders never grows
DecoderGatedByEarlier ==
    (r1'.invoked # r1.invoked) =>
        /\ r1.pc \notin {"return", "panic"}
        /\ ~r1.ret.returned
        /\ r1'.invoked = Append(r1.invoked, r1'.invoked[Len(r1'.invoked)])

(* C17: Read1 invokes the section decoders in the fixed order Indicator,    *)
(* Product Definition, (Grid Description), (Bitmap), Binary Data, End,     *)
(* each only after every earlier decoder succeeded; once a decoder fails   *)
(* (the first four bytes are not "GRIB", the eighth byte is not 1, ...) no *)
(* later decoder is invoked.                                               *)
C17_FixedDecoderOrder ==
    /\ [](entry = "Read1" => DecodersInOrder)
    /\ [][entry = "Read1" => DecoderGatedByEarlier]_vars

\* the Indicator refused a buffer that does not start with "GRIB" and nothing else ran
C17_Witness ==
    /\ entry = "Read1" /\ pc = "done" /\ ret.kind = "return" /\ ret.err # NoErr
    /\ Len(data) >= 8 /\ Slice(data, 0, 4) # GRIB
    /\ r1.invoked = <<"Indicator">>

InsufficientData ==
    { "GRIB file section must be at least 28 bytes long",
      "GRIB file section must be at least 6 bytes long",
      "GRIB file section must be at least 11 bytes long",
      "section 1 claims its length is greater than data size",
      "section 2 claims its length is greater than data size",
      "section 3 claims its length is greater than data size" }

(* C18: each length-prefixed section decoder (Product Definition, Grid     *)
(* Description, Bitmap, Binary Data) fails with an insufficient-data error *)
(* whenever its self-declared length exceeds the span it was given, and on *)
(* success reports bytes consumed equal to its self-declared length.       *)
C18_DeclaredLengthWithinSpan ==
    (entry = "section" /\ pc = "done" /\ Len(data) >= 3) =>
        LET decl == B(data, 0) * 65536 + B(data, 1) * 256 + B(data, 2)
        IN  /\ decl > Len(data) =>
                  /\ ret.kind = "return" /\ ret.n = 0
                  /\ ret.err # NoErr /\ ret.err[1] \in InsufficientData
            /\ (ret.kind = "return" /\ ret.err = NoErr) => ret.n = decl

\* a Product Definition declaring one byte more than its span was refused
C18_Witness ==
    /\ entry = "section" /\ pc = "done" /\ arg.kind = "ProductDefinition"
    /\ Len(data) = 28 /\ B(data, 2) = 29
    /\ ret.kind = "return" /\ ret.err = <<"section 1 claims its length is greater than data size">>

\* a section Read1 decoded declares fewer bytes than its fixed fields take
DeclaresBelowMinimum(f) ==
    \/ Has(f.invoked, "ProductDefinition") /\ DeclaredAt(f.data, 8) \in 0..27
    \/ Has(f.invoked, "GridDescription") /\ f.sec2[1].section2Length < 6
    \/ Has(f.invoked, "Bitmap") /\ f.sec3[1].section3Length < 6
    \/ Has(f.invoked, "BinaryData") /\ f.sec4[1].section4Length < 11

(* C19: a Product Definition, Grid Description, Bitmap or Binary Data       *)
(* section whose self-declared length is below its fixed minimum (28, 6,   *)
(* 6 and 11 bytes) makes Read1 fail with an error; such a section is never *)
(* accepted, and the next section never starts inside the bytes the        *)
(* decoder read as fields.                                                 *)
C19_ShortSectionRejected ==
    (entry = "Read1" /\ pc = "done" /\ DeclaresBelowMinimum(r1)) =>
        /\ ret.kind = "return"
        /\ ret.err # NoErr /\ ret.msg = <<>>

\* where the Bitmap section starts, read from the lengths the earlier sections declare
BitmapStart(d) ==
    8 + DeclaredAt(d, 8)
      + (IF (FlagByte(d) \div 128) % 2 = 1 THEN DeclaredAt(d, 8 + DeclaredAt(d, 8)) ELSE 0)

(* C20: when the bitmap flag is set and the Bitmap's table reference is 0,  *)
(* the Message returned by Read1 retains as bit mask exactly bytes         *)
(* [6, declared section length) of the Bitmap section; when the table      *)
(* reference is non-zero no mask is retained.                              *)
C20_BitmapMaskRetained ==
    ( /\ entry = "Read1" /\ pc = "done" /\ ret.kind = "return" /\ ret.err = NoErr
      /\ (FlagByte(data) \div 64) % 2 = 1 )
    => LET pos == BitmapStart(data)
           decl == DeclaredAt(data, pos)
           ref == B(data, pos + 4) * 256 + B(data, pos + 5)
           bitmap == ret.msg[1].bitmap
       IN  /\ bitmap # <<>>
           /\ ref = 0 => bitmap[1].values = [nil |-> FALSE, b |-> SubSeq(data, pos + 7, pos + decl)]
           /\ ref # 0 => bitmap[1].values.nil

\* a message with a Grid Description and a two-byte bit mask was assembled
C20_Witness ==
    /\ entry = "Read1" /\ pc = "done" /\ ret.kind = "return" /\ ret.err = NoErr
    /\ FlagByte(data) = 192
    /\ ret.msg[1].bitmap # <<>>
    /\ ~ret.msg[1].bitmap[1].values.nil /\ Len(ret.msg[1].bitmap[1].values.b) = 2

(* C21: when the Binary Data flag indicates floating-point samples and     *)
(* bits-per-value is 32, the decoder yields one sample per 4-byte group of *)
(* the section payload: exactly (declared section length - 11) / 4         *)
(* samples, the i-th decoded from payload bytes [4i, 4i+4).                *)
C21_FloatSamplesDense ==
    ( /\ entry = "section" /\ pc = "done" /\ arg.kind = "BinaryData"
      /\ Len(data) >= 11
      /\ (B(data, 3) \div 32) % 2 = 0 /\ B(data, 10) = 32
      /\ DeclaredAt(data, 0) \in 11..Len(data)
      /\ (DeclaredAt(data, 0) - 11) % 4 = 0 )
    => LET count == (DeclaredAt(data, 0) - 11) \div 4
       IN  /\ ret.kind = "return" /\ ret.err = NoErr
           /\ Len(ret.sec.variables) = count
           /\ \A i \in 0..count - 1 :
                 ret.sec.variables[i + 1] =
                     [ hi |-> B(data, 11 + 4 * i + 3) * 256 + B(data, 11 + 4 * i + 2),
                       lo |-> B(data, 11 + 4 * i + 1) * 256 + B(data, 11 + 4 * i) ]

\* where the Binary Data section starts, read from the lengths the earlier sections declare
BinaryDataStart(d) ==
    BitmapStart(d)
      + (IF (FlagByte(d) \div 64) % 2 = 1 THEN DeclaredAt(d, BitmapStart(d)) ELSE 0)

(* C22: when the Binary Data flag indicates packed-integer samples, the    *)
(* decoder retains as still-packed payload exactly bytes [11, declared     *)
(* section length) of the Binary Data section and nothing beyond the       *)
(* declared length: not the End sentinel, not bytes of following messages. *)
C22_PackedPayloadWithinSection ==
    ( /\ entry = "Read1" /\ pc = "done" /\ ret.kind = "return" /\ ret.err = NoErr
      /\ (B(data, BinaryDataStart(data) + 3) \div 32) % 2 = 1 )
    => LET pos == BinaryDataStart(data)
           decl == DeclaredAt(data, pos)
       IN  ret.msg[1].binary.unparsedVariables = [nil |-> FALSE, b |-> SubSeq(data, pos + 12, pos + decl)]

(* C23: a Binary Data section flagged as floating-point (flag bit 0x20     *)
(* clear) whose bits-per-value is not 32 makes Read1 fail; a section       *)
(* flagged as packed-integer is accepted for every bits-per-value.         *)
C23_BitsPerValueChecked ==
    (entry = "Read1" /\ Has(r1.invoked, "BinaryData")) =>
        LET pos == BinaryDataStart(data)
            span == Len(data) - pos
            float == (B(data, pos + 3) \div 32) % 2 = 0
            failedHere == r1.pc = "return" /\ r1.ret.err # NoErr
                          /\ r1.invoked[Len(r1.invoked)] = "BinaryData"
        IN  /\ (span >= 11 /\ float /\ B(data, pos + 10) # 32) =>
                  (failedHere /\ r1.ret.msg = <<>>)
            /\ (span >= 11 /\ ~float /\ DeclaredAt(data, pos) <= span) => ~failedHere

\* a floating-point section of 16 bits per value was refused
C23_Witness ==
    /\ entry = "Read1" /\ pc = "done" /\ ret.kind = "return"
    /\ ret.err = <<"error parsing binary data section", "bitsPerValue, wanted 32 for floating point values">>
    /\ B(data, BinaryDataStart(data) + 3) = 0 /\ B(data, BinaryDataStart(data) + 10) = 16

(* C24: when a section decoder fails, the error Read1 returns is wrapped   *)
(* with the name of the section that failed: a Product Definition, Grid    *)
(* Description, Bitmap or End failure is not reported under the name of    *)
(* the Indicator or of the Binary Data section.                            *)
C24_ErrorNamesFailedSection ==
    (entry = "Read1" /\ r1.pc = "return" /\ Len(r1.ret.err) >= 2) =>
        LET failed == r1.invoked[Len(r1.invoked)]
            wrap == r1.ret.err[1]
        IN  /\ wrap = "error parsing indicator section" => failed = "Indicator"
            /\ wrap = "error parsing binary data section" => failed = "BinaryData"

FitsInt32(w) == w.hi \in -32768..32767

(* C28: for every LatLongGrid decodable from the wire, the 32-bit signed   *)
(* arithmetic in Points computes first coordinate + index x increment      *)
(* without wrapping: every product and every sum stays within int32, so    *)
(* every emitted coordinate equals the unbounded-integer result.           *)
C28_PointsArithmeticFits ==
    (entry = "Points" /\ pc = "done") =>
        LET g == ret.grid
        IN  /\ \A i \in 0..g.numPointsAlongParallel - 1 :
                  /\ FitsInt32(WideMul(i, g.parallelIncrement))
                  /\ FitsInt32(ExactCoordinate(g.firstLng, i, g.parallelIncrement))
            /\ \A j \in 0..g.numPointsAlongMeridian - 1 :
                  /\ FitsInt32(WideMul(j, g.meridianIncrement))
                  /\ FitsInt32(ExactCoordinate(g.firstLat, j, g.meridianIncrement))
            /\ \A k \in 1..Len(ret.points) :
                  \E i \in 0..g.numPointsAlongParallel - 1, j \in 0..g.numPointsAlongMeridian - 1 :
                      /\ k - 1 \in {j * g.numPointsAlongParallel + i, i * g.numPointsAlongMeridian + j}
                      /\ Wide(ret.points[k].lng) = ExactCoordinate(g.firstLng, i, g.parallelIncrement)
                      /\ Wide(ret.points[k].lat) = ExactCoordinate(g.firstLat, j, g.meridianIncrement)

(* C29: the outcome of Read1 depends only on the bytes inside the declared *)
(* message extent: a buffer and its first messageLength bytes alone give   *)
(* the same success or failure, the same bytes consumed and the same       *)
(* decoded Message, the number of decoded samples and the retained         *)
(* payloads included.                                                      *)
C29_OutcomeWithinDeclaredExtent ==
    ( /\ entry = "Read1" /\ pc = "done"
      /\ Len(data) >= 8 /\ DeclaredLength(data) \in 8..Len(data) )
    => LET alone == Read1(SubSeq(data, 1, DeclaredLength(data)))
       IN  /\ (ret.kind = "panic") <=> (alone.pc = "panic")
           /\ ret.kind = "return" =>
                 /\ (ret.err = NoErr) <=> (alone.ret.err = NoErr)
                 /\ ret.n = alone.ret.n
                 /\ ret.msg = alone.ret.msg

\* an iteration of Read's loop that goes round again has consumed at least one byte
ReadIterationAdvances ==
    (entry = "Read" /\ pc = "Read_got" /\ pc' = "Read") =>
        /\ unconsumed' >= unconsumed + 1
        /\ Len(SliceFrom(data, unconsumed')) < Len(SliceFrom(data, unconsumed))

(* C26: grib1.Read terminates on every finite buffer: each loop iteration  *)
(* either returns an error or consumes at least one byte of the unconsumed *)
(* suffix.                                                                 *)
C26_ReadTerminates ==
    /\ [][ReadIterationAdvances]_vars
    /\ <>(pc = "done")

\* Read returned after going round its loop for two messages and the padding behind them
C26_Witness ==
    /\ entry = "Read" /\ pc = "done" /\ ret.kind = "return" /\ ret.err = NoErr
    /\ Len(ret.out) >= 3 /\ unconsumed = Len(data)

(* C25: for each edition-1 message whose declared bytes are all in the     *)
(* stream, ReadFile's read leaves in recordBytes exactly the declared-     *)
(* length bytes of that message and leaves the reader at the byte right    *)
(* after it, whatever the declared length and however many bytes the       *)
(* buffered reader returns from a single Read call.                        *)
C25_RecordHoldsDeclaredBytes ==
    [][ ( /\ pc = "ReadFile_read" /\ pc' = "ReadFile_switch"
          /\ got.parseType = "parseAsGRIB1"
          /\ Uint64Int(got.messageLen) <= Len(data) - rr.r )
        => /\ got'.read = Slice(data, rr.r, rr.r + Uint64Int(got.messageLen))
           /\ recordBytes(got') = Slice(data, rr.r, rr.r + Uint64Int(got.messageLen))
           /\ rr'.r = rr.r + Uint64Int(got.messageLen) ]_vars

\* an iteration of ReadFile's loop that goes round again has advanced the stream
ReadFileIterationAdvances ==
    (entry = "ReadFile" /\ pc \in {"ReadFile_switch", "Read1"} /\ pc' = "ReadFile") =>
        zerosConsumed + got.readCount >= 1

(* C27: ReadFile terminates on every finite stream: each iteration of its  *)
(* loop either returns or advances the stream by at least one byte, for    *)
(* both editions and every declared length a header can carry, 0 included, *)
(* and the call eventually ends.                                           *)
C27_ReadFileTerminates ==
    /\ [][ReadFileIterationAdvances]_vars
    /\ <>(pc = "done")

\* the offset in the stream handed to Read at which its k-th message starts
MsgStart(k) == Len(ChunkBytes(SubSeq(arg.chunks, 1, k - 1), 1)) + arg.chunks[k].zeros

(* C30: on success the sequence Read returns has one element per message   *)
(* of the stream, and its k-th element is what Read1 decoded at the start  *)
(* of the k-th message: nothing duplicated, dropped, reordered or added.   *)
C30_StreamOrderPreserved ==
    (entry = "Read" /\ pc = "done" /\ ret.kind = "return" /\ ret.err = NoErr) =>
        /\ Len(ret.out) = Len(arg.chunks)
        /\ Len(attempts) = Len(arg.chunks)
        /\ \A k \in 1..Len(arg.chunks) :
              /\ attempts[k] = MsgStart(k)
              /\ k <= Len(ret.out) =>
                    ret.out[k] = Read1(SliceFrom(data, attempts[k])).ret.msg

\* an edition-2 message that is as long as it declares
HonestGrib2(it) == it.len8 = <<0, 0, 0, 0, 0, 0, 0, 16 + it.body>>

\* the same for ReadFile on a stream whose edition-2 messages are as long as they declare:
\* the k-th element is the decoding of the k-th edition-1 message
ReadFileOrderPreserved ==
    ( /\ entry = "ReadFile" /\ pc = "done" /\ ret.kind = "return" /\ ret.err = NoErr
      /\ \A k \in 1..Len(arg.items) :
            arg.items[k].item.kind = "grib2" => HonestGrib2(arg.items[k].item) ) =>
        LET ones == SelectSeq(arg.items, LAMBDA c : c.item.kind = "grib1")
            msgs == ret.file[1].grib1Messages
        IN  /\ Len(msgs) = Len(ones)
            /\ \A k \in 1..Len(ones) :
                  k <= Len(msgs) => msgs[k] = Read1(MsgBytes(ones[k].item.m)).ret.msg

====
